---- MODULE Spec2Model ----
(***************************************************************************)
(* Model of src/core/order.rs (IBKR-API-Rust): the Order aggregate, its    *)
(* Default construction, the single-order presets, bracket_order,          *)
(* one_cancels_all_order, the combination presets, the adjustable attached *)
(* stops, the condition builders and the condition chain, Display for      *)
(* Order, the decoding of persisted orders and of the nested structs,      *)
(* OrderState, and calls of the presets made by several threads.           *)
(*                                                                         *)
(* Representation.  An Order is a record with the 130 fields of the struct. *)
(* f64 values are written as their decimal literals ("50.5", "0.0"); the   *)
(* code only stores, compares and formats them.  i32 values are integers   *)
(* of their real width; additions are done by i32_add.  Strings, bools    *)
(* and Vecs are strings, BOOLEAN and sequences.                            *)
(***************************************************************************)
EXTENDS Integers, Sequences, FiniteSets, TLC

VARIABLES
  overflow_checks,  \* build profile: TRUE = debug (overflow panics), FALSE = release (wraps)
  call,             \* name of the preset the caller has called, "none" before
  args,             \* the arguments of that call
  ret,              \* the Order it returned
  bracket,          \* outcome of the caller's bracket_order call
  submitted,        \* how many orders of the bracket the caller has sent to the venue
  held,             \* venue: orders received with transmit = false, not yet activated
  active,           \* venue: activated orders
  caller_orders,    \* the caller's own Vec<Order>
  caller_owns,      \* FALSE once the caller has moved caller_orders away
  oca,              \* record of the caller's one_cancels_all_order call
  display,          \* record of the caller's formatting of an Order with "{}"
  attach,           \* record of the caller's attach_adjustable_to_*_order call
  combo,            \* record of the caller's combo preset call
  condition,        \* record of the caller's last *_condition_order call
  conditions,       \* Order.conditions of the order the caller is building, with
                    \* the builder arguments and the venue's truth value of each
  decoded,          \* record of the caller's decoding of a persisted Order
  decoded_part,     \* record of the caller's decoding of a persisted SoftDollarTier or
                    \* OrderComboLeg, alone or inside an Order record
  special,          \* record of the caller's call of volatility_order,
                    \* market_fhedge_order, pegged_to_benchmark_order or what_if_limit_order
  order_state,      \* record of the caller's construction and formatting of an OrderState
  calls,            \* the preset and builder calls the threads have made, in the
                    \* order in which they ran
  rendered          \* record of the caller's formatting of the order with `conditions`

vars == <<overflow_checks, call, args, ret, bracket, submitted, held, active,
          caller_orders, caller_owns, oca, display, attach, combo, condition,
          conditions, decoded, decoded_part, special, order_state, calls, rendered>>

presetVars == <<call, args, ret>>
bracketVars == <<bracket, submitted, held, active>>
ocaVars == <<caller_orders, caller_owns, oca>>
condVars == <<condition, conditions>>
\* the state of the last sections of this module
lateVars == <<decoded_part, special, order_state, calls, rendered>>
\* the state of the later sections of this module
extVars == <<display, attach, combo, condVars, decoded, lateVars>>
\* the state of the earlier sections of this module
coreVars == <<overflow_checks, presetVars, bracketVars, ocaVars>>

----------------------------------------------------------------------------
(* Sentinels and integer width *)

\* i32::MAX, the width of order_id / parent_id (order.rs 219, 244)
I32Max == 2147483647

I32Min == -I32Max - 1

\* crate::core::common::UNSET_INTEGER (imported at order.rs 8)
UNSET_INTEGER == 2147483647

\* crate::core::common::UNSET_DOUBLE (imported at order.rs 8), f64::MAX
UNSET_DOUBLE == "1.7976931348623157E308"

----------------------------------------------------------------------------
(* Input domains of the caller *)

Accounts == {"U123", ""}

Actions == {"BUY", "SELL", "SSHORT", "buy", ""}

Quantities == {"100.0", "-1.0"}

Prices == {"50.5", "50.0", "0.0"}

AuctionStrategies == {"AuctionUnset", "AuctionMatch", "AuctionImprovement", "AuctionTransparent"}

ParentOrderIds == {I32Min, -1, 0, 1, 42, I32Max - 1, I32Max}

BracketPrices == {"50.5", "50.0"}

OcaGroups == {"TestOCA", "G2"}

OcaTypes == {1, 2, 3}

\* longest Vec<Order> the caller builds
MaxOrders == 2

----------------------------------------------------------------------------
(* SoftDollarTier and Order::default *)

\* SoftDollarTier::new (order.rs 57-63)
SoftDollarTier_new(name, val, display_name) ==
  [name |-> name, val |-> val, display_name |-> display_name]

\* What a field-by-field default would give: each field holds the
\* Default::default() of its own type (false, "", 0, 0.0, empty Vec,
\* Origin::Unknown of order.rs 25-29), none of the values that
\* impl Default for Order writes by hand.
Order_fieldwise_default ==
  [soft_dollar_tier |-> [name |-> "", val |-> "", display_name |-> ""], order_id |-> 0,
   client_id |-> 0, perm_id |-> 0, action |-> "", total_quantity |-> "0.0",
   order_type |-> "", lmt_price |-> "0.0", aux_price |-> "0.0", tif |-> "",
   active_start_time |-> "", active_stop_time |-> "", oca_group |-> "", oca_type |-> 0,
   order_ref |-> "", transmit |-> FALSE, parent_id |-> 0, block_order |-> FALSE,
   sweep_to_fill |-> FALSE, display_size |-> 0, trigger_method |-> 0,
   outside_rth |-> FALSE, hidden |-> FALSE, good_after_time |-> "",
   good_till_date |-> "", rule80a |-> "", all_or_none |-> FALSE, min_qty |-> 0,
   percent_offset |-> "0.0", override_percentage_constraints |-> FALSE,
   trail_stop_price |-> "0.0", trailing_percent |-> "0.0", fa_group |-> "",
   fa_profile |-> "", fa_method |-> "", fa_percentage |-> "", designated_location |-> "",
   open_close |-> "", origin |-> "Unknown", short_sale_slot |-> 0, exempt_code |-> 0,
   discretionary_amt |-> "0.0", e_trade_only |-> FALSE, firm_quote_only |-> FALSE,
   nbbo_price_cap |-> "0.0", opt_out_smart_routing |-> FALSE,
   auction_strategy |-> "AuctionUnset", starting_price |-> "0.0",
   stock_ref_price |-> "0.0", delta |-> "0.0", stock_range_lower |-> "0.0",
   stock_range_upper |-> "0.0", randomize_price |-> FALSE, randomize_size |-> FALSE,
   volatility |-> "0.0", volatility_type |-> 0, delta_neutral_order_type |-> "",
   delta_neutral_aux_price |-> "0.0", delta_neutral_con_id |-> 0,
   delta_neutral_settling_firm |-> "", delta_neutral_clearing_account |-> "",
   delta_neutral_clearing_intent |-> "", delta_neutral_open_close |-> "",
   delta_neutral_short_sale |-> FALSE, delta_neutral_short_sale_slot |-> 0,
   delta_neutral_designated_location |-> "", continuous_update |-> FALSE,
   reference_price_type |-> 0, basis_points |-> "0.0", basis_points_type |-> 0,
   scale_init_level_size |-> 0, scale_subs_level_size |-> 0,
   scale_price_increment |-> "0.0", scale_price_adjust_value |-> "0.0",
   scale_price_adjust_interval |-> 0, scale_profit_offset |-> "0.0",
   scale_auto_reset |-> FALSE, scale_init_position |-> 0, scale_init_fill_qty |-> 0,
   scale_random_percent |-> FALSE, scale_table |-> "", hedge_type |-> "",
   hedge_param |-> "", account |-> "", settling_firm |-> "", clearing_account |-> "",
   clearing_intent |-> "", algo_strategy |-> "", algo_params |-> <<>>,
   smart_combo_routing_params |-> <<>>, algo_id |-> "", what_if |-> FALSE,
   not_held |-> FALSE, solicited |-> FALSE, model_code |-> "", order_combo_legs |-> <<>>,
   order_misc_options |-> <<>>, reference_contract_id |-> 0,
   pegged_change_amount |-> "0.0", is_pegged_change_amount_decrease |-> FALSE,
   reference_change_amount |-> "0.0", reference_exchange_id |-> "",
   adjusted_order_type |-> "", trigger_price |-> "0.0", adjusted_stop_price |-> "0.0",
   adjusted_stop_limit_price |-> "0.0", adjusted_trailing_amount |-> "0.0",
   adjustable_trailing_unit |-> 0, lmt_price_offset |-> "0.0", conditions |-> <<>>,
   conditions_cancel_order |-> FALSE, conditions_ignore_rth |-> FALSE,
   ext_operator |-> "", cash_qty |-> "0.0", mifid2decision_maker |-> "",
   mifid2decision_algo |-> "", mifid2execution_trader |-> "",
   mifid2execution_algo |-> "", dont_use_auto_price_for_hedge |-> FALSE,
   is_oms_container |-> FALSE, discretionary_up_to_limit_price |-> FALSE,
   auto_cancel_date |-> "", filled_quantity |-> "0.0", ref_futures_con_id |-> 0,
   auto_cancel_parent |-> FALSE, shareholder |-> "", imbalance_only |-> FALSE,
   route_marketable_to_bbo |-> FALSE, parent_perm_id |-> 0,
   use_price_mgmt_algo |-> FALSE]

\* impl Default for Order (order.rs 2109-2305)
Order_default ==
  [
    soft_dollar_tier |-> SoftDollarTier_new("", "", ""),
    order_id |-> 0,
    client_id |-> 0,
    perm_id |-> 0,
    action |-> "",
    total_quantity |-> "0.0",
    order_type |-> "",
    lmt_price |-> UNSET_DOUBLE,
    aux_price |-> UNSET_DOUBLE,
    tif |-> "",
    active_start_time |-> "",
    active_stop_time |-> "",
    oca_group |-> "",
    oca_type |-> 0,
    order_ref |-> "",
    transmit |-> TRUE,
    parent_id |-> 0,
    block_order |-> FALSE,
    sweep_to_fill |-> FALSE,
    display_size |-> 0,
    trigger_method |-> 0,
    outside_rth |-> FALSE,
    hidden |-> FALSE,
    good_after_time |-> "",
    good_till_date |-> "",
    rule80a |-> "",
    all_or_none |-> FALSE,
    min_qty |-> UNSET_INTEGER,
    percent_offset |-> UNSET_DOUBLE,
    override_percentage_constraints |-> FALSE,
    trail_stop_price |-> UNSET_DOUBLE,
    trailing_percent |-> UNSET_DOUBLE,
    fa_group |-> "",
    fa_profile |-> "",
    fa_method |-> "",
    fa_percentage |-> "",
    designated_location |-> "",
    open_close |-> "O",
    origin |-> "Customer",
    short_sale_slot |-> 0,
    exempt_code |-> -1,
    discretionary_amt |-> "0.0",
    e_trade_only |-> TRUE,
    firm_quote_only |-> TRUE,
    nbbo_price_cap |-> UNSET_DOUBLE,
    opt_out_smart_routing |-> FALSE,
    auction_strategy |-> "AuctionUnset",
    starting_price |-> UNSET_DOUBLE,
    stock_ref_price |-> UNSET_DOUBLE,
    delta |-> UNSET_DOUBLE,
    stock_range_lower |-> UNSET_DOUBLE,
    stock_range_upper |-> UNSET_DOUBLE,
    randomize_price |-> FALSE,
    randomize_size |-> FALSE,
    volatility |-> UNSET_DOUBLE,
    volatility_type |-> UNSET_INTEGER,
    delta_neutral_order_type |-> "",
    delta_neutral_aux_price |-> UNSET_DOUBLE,
    delta_neutral_con_id |-> 0,
    delta_neutral_settling_firm |-> "",
    delta_neutral_clearing_account |-> "",
    delta_neutral_clearing_intent |-> "",
    delta_neutral_open_close |-> "",
    delta_neutral_short_sale |-> FALSE,
    delta_neutral_short_sale_slot |-> 0,
    delta_neutral_designated_location |-> "",
    continuous_update |-> FALSE,
    reference_price_type |-> UNSET_INTEGER,
    basis_points |-> UNSET_DOUBLE,
    basis_points_type |-> UNSET_INTEGER,
    scale_init_level_size |-> UNSET_INTEGER,
    scale_subs_level_size |-> UNSET_INTEGER,
    scale_price_increment |-> UNSET_DOUBLE,
    scale_price_adjust_value |-> UNSET_DOUBLE,
    scale_price_adjust_interval |-> UNSET_INTEGER,
    scale_profit_offset |-> UNSET_DOUBLE,
    scale_auto_reset |-> FALSE,
    scale_init_position |-> UNSET_INTEGER,
    scale_init_fill_qty |-> UNSET_INTEGER,
    scale_random_percent |-> FALSE,
    scale_table |-> "",
    hedge_type |-> "",
    hedge_param |-> "",
    account |-> "",
    settling_firm |-> "",
    clearing_account |-> "",
    clearing_intent |-> "",
    algo_strategy |-> "",
    algo_params |-> <<>>,
    smart_combo_routing_params |-> <<>>,
    algo_id |-> "",
    what_if |-> FALSE,
    not_held |-> FALSE,
    solicited |-> FALSE,
    model_code |-> "",
    order_combo_legs |-> <<>>,
    order_misc_options |-> <<>>,
    reference_contract_id |-> 0,
    pegged_change_amount |-> "0.0",
    is_pegged_change_amount_decrease |-> FALSE,
    reference_change_amount |-> "0.0",
    reference_exchange_id |-> "",
    adjusted_order_type |-> "",
    trigger_price |-> UNSET_DOUBLE,
    adjusted_stop_price |-> UNSET_DOUBLE,
    adjusted_stop_limit_price |-> UNSET_DOUBLE,
    adjusted_trailing_amount |-> UNSET_DOUBLE,
    adjustable_trailing_unit |-> 0,
    lmt_price_offset |-> UNSET_DOUBLE,
    conditions |-> <<>>,
    conditions_cancel_order |-> FALSE,
    conditions_ignore_rth |-> FALSE,
    ext_operator |-> "",
    cash_qty |-> UNSET_DOUBLE,
    mifid2decision_maker |-> "",
    mifid2decision_algo |-> "",
    mifid2execution_trader |-> "",
    mifid2execution_algo |-> "",
    dont_use_auto_price_for_hedge |-> FALSE,
    is_oms_container |-> FALSE,
    discretionary_up_to_limit_price |-> FALSE,
    auto_cancel_date |-> "",
    filled_quantity |-> UNSET_DOUBLE,
    ref_futures_con_id |-> 0,
    auto_cancel_parent |-> FALSE,
    shareholder |-> "",
    imbalance_only |-> FALSE,
    route_marketable_to_bbo |-> FALSE,
    parent_perm_id |-> 0,
    use_price_mgmt_algo |-> FALSE
  ]

\* the f64 fields of Order (order.rs 216-444)
F64Fields ==
  {
    "total_quantity", "lmt_price", "aux_price", "percent_offset", "trail_stop_price",
    "trailing_percent", "discretionary_amt", "nbbo_price_cap", "starting_price",
    "stock_ref_price", "delta", "stock_range_lower", "stock_range_upper", "volatility",
    "delta_neutral_aux_price", "basis_points", "scale_price_increment",
    "scale_price_adjust_value", "scale_profit_offset", "pegged_change_amount",
    "reference_change_amount", "trigger_price", "adjusted_stop_price",
    "adjusted_stop_limit_price", "adjusted_trailing_amount", "lmt_price_offset",
    "cash_qty", "filled_quantity"
  }

\* every name of an Order field
OrderFields == DOMAIN Order_default

\* the fields of Order of type bool (order.rs 216-444)
BoolFields ==
  {"transmit", "block_order", "sweep_to_fill", "outside_rth", "hidden", "all_or_none",
   "override_percentage_constraints", "e_trade_only", "firm_quote_only",
   "opt_out_smart_routing", "randomize_price", "randomize_size",
   "delta_neutral_short_sale", "continuous_update", "scale_auto_reset",
   "scale_random_percent", "what_if", "not_held", "solicited",
   "is_pegged_change_amount_decrease", "conditions_cancel_order",
   "conditions_ignore_rth", "dont_use_auto_price_for_hedge", "is_oms_container",
   "discretionary_up_to_limit_price", "auto_cancel_parent", "imbalance_only",
   "route_marketable_to_bbo", "use_price_mgmt_algo"}

\* the fields of Order of type String (order.rs 216-444)
StringFields ==
  {"action", "order_type", "tif", "active_start_time", "active_stop_time", "oca_group",
   "order_ref", "good_after_time", "good_till_date", "rule80a", "fa_group",
   "fa_profile", "fa_method", "fa_percentage", "designated_location", "open_close",
   "delta_neutral_order_type", "delta_neutral_settling_firm",
   "delta_neutral_clearing_account", "delta_neutral_clearing_intent",
   "delta_neutral_open_close", "delta_neutral_designated_location", "scale_table",
   "hedge_type", "hedge_param", "account", "settling_firm", "clearing_account",
   "clearing_intent", "algo_strategy", "algo_id", "model_code", "reference_exchange_id",
   "adjusted_order_type", "ext_operator", "mifid2decision_maker", "mifid2decision_algo",
   "mifid2execution_trader", "mifid2execution_algo", "auto_cancel_date", "shareholder"}

----------------------------------------------------------------------------
(* Single-order presets: struct literals over ..Default::default() *)

\* Order::at_auction_order (order.rs 719-729)
at_auction_order(account, action, quantity, price) ==
  [Order_default EXCEPT
    !.account = account,
    !.action = action,
    !.tif = "AUC",
    !.order_type = "MTL",
    !.total_quantity = quantity,
    !.lmt_price = price]

\* Order::discretionary_order (order.rs 736-752)
discretionary_order(account, action, quantity, price, discretionary_amount) ==
  [Order_default EXCEPT
    !.account = account,
    !.action = action,
    !.order_type = "LMT",
    !.total_quantity = quantity,
    !.lmt_price = price,
    !.discretionary_amt = discretionary_amount]

\* Order::market_order (order.rs 760-768)
market_order(account, action, quantity) ==
  [Order_default EXCEPT
    !.account = account,
    !.action = action,
    !.order_type = "MKT",
    !.total_quantity = quantity]

\* Order::market_if_touched_order_order (order.rs 782-796)
market_if_touched_order_order(account, action, quantity, price) ==
  [Order_default EXCEPT
    !.account = account,
    !.action = action,
    !.order_type = "MIT",
    !.total_quantity = quantity,
    !.aux_price = price]

\* Order::market_on_close_order (order.rs 801-809)
market_on_close_order(account, action, quantity) ==
  [Order_default EXCEPT
    !.account = account,
    !.action = action,
    !.order_type = "MOC",
    !.total_quantity = quantity]

\* Order::market_on_open_order (order.rs 815-824)
market_on_open_order(account, action, quantity) ==
  [Order_default EXCEPT
    !.account = account,
    !.action = action,
    !.order_type = "MKT",
    !.total_quantity = quantity,
    !.tif = "OPG"]

\* Order::midpoint_match_order (order.rs 832-840)
midpoint_match_order(account, action, quantity) ==
  [Order_default EXCEPT
    !.account = account,
    !.action = action,
    !.order_type = "MKT",
    !.total_quantity = quantity]

\* Order::midprice_order (order.rs 847-857)
midprice_order(account, action, quantity, price_cap) ==
  [Order_default EXCEPT
    !.account = account,
    !.action = action,
    !.order_type = "MIDPRICE",
    !.total_quantity = quantity,
    !.lmt_price = price_cap]

\* Order::pegged_to_market_order (order.rs 868-884)
pegged_to_market_order(account, action, quantity, market_offset) ==
  [Order_default EXCEPT
    !.account = account,
    !.action = action,
    !.order_type = "PEG MKT",
    !.total_quantity = quantity,
    !.aux_price = market_offset]

\* Order::pegged_to_stock_order (order.rs 899-919)
pegged_to_stock_order(account, action, quantity, delta, stock_reference_price, starting_price) ==
  [Order_default EXCEPT
    !.account = account,
    !.action = action,
    !.order_type = "PEG STK",
    !.total_quantity = quantity,
    !.delta = delta,
    !.stock_ref_price = stock_reference_price,
    !.starting_price = starting_price]

\* Order::relative_pegged_to_primary_order (order.rs 939-957)
relative_pegged_to_primary_order(account, action, quantity, price_cap, offset_amount) ==
  [Order_default EXCEPT
    !.account = account,
    !.action = action,
    !.order_type = "REL",
    !.total_quantity = quantity,
    !.lmt_price = price_cap,
    !.aux_price = offset_amount]

\* Order::sweep_to_fill_order (order.rs 966-978)
sweep_to_fill_order(account, action, quantity, price) ==
  [Order_default EXCEPT
    !.account = account,
    !.action = action,
    !.order_type = "LMT",
    !.total_quantity = quantity,
    !.lmt_price = price,
    !.sweep_to_fill = TRUE]

\* Order::auction_limit_order (order.rs 994-1014)
auction_limit_order(account, action, quantity, price, auction_strategy) ==
  [Order_default EXCEPT
    !.account = account,
    !.action = action,
    !.order_type = "LMT",
    !.total_quantity = quantity,
    !.lmt_price = price,
    !.auction_strategy = auction_strategy]

\* Order::auction_pegged_to_stock_order (order.rs 1037-1055)
auction_pegged_to_stock_order(account, action, quantity, starting_price, delta) ==
  [Order_default EXCEPT
    !.account = account,
    !.action = action,
    !.order_type = "PEG STK",
    !.total_quantity = quantity,
    !.delta = delta,
    !.starting_price = starting_price]

\* Order::auction_relative_order (order.rs 1078-1089)
auction_relative_order(account, action, quantity, offset) ==
  [Order_default EXCEPT
    !.account = account,
    !.action = action,
    !.order_type = "REL",
    !.total_quantity = quantity,
    !.aux_price = offset]

\* Order::block_order (order.rs 1095-1107)
block_order(account, action, quantity, price) ==
  [Order_default EXCEPT
    !.account = account,
    !.action = action,
    !.order_type = "LMT",
    !.total_quantity = quantity,
    !.lmt_price = price,
    !.block_order = TRUE]

\* Order::box_top_order (order.rs 1114-1124)
box_top_order(account, action, quantity) ==
  [Order_default EXCEPT
    !.account = account,
    !.action = action,
    !.order_type = "BOX TOP",
    !.total_quantity = quantity]

\* limit_order taking the order's id from the number of calls made so far
limit_order_numbered(account, action, quantity, limit_price) ==
  [Order_default EXCEPT
    !.account = account,
    !.action = action,
    !.order_type = "LMT",
    !.total_quantity = quantity,
    !.lmt_price = limit_price,
    !.order_id = Len(calls.log)]

\* Order::limit_order (order.rs 1130-1139)
limit_order(account, action, quantity, limit_price) ==
  [Order_default EXCEPT
    !.account = account,
    !.action = action,
    !.order_type = "LMT",
    !.total_quantity = quantity,
    !.lmt_price = limit_price]

\* Order::limit_order_with_cash_qty_order (order.rs 1144-1161)
limit_order_with_cash_qty_order(account, action, quantity, limit_price, cash_qty) ==
  [Order_default EXCEPT
    !.account = account,
    !.action = action,
    !.order_type = "LMT",
    !.total_quantity = quantity,
    !.lmt_price = limit_price,
    !.cash_qty = cash_qty]

\* Order::limit_if_touched_order (order.rs 1170-1188)
limit_if_touched_order(account, action, quantity, limit_price, trigger_price) ==
  [Order_default EXCEPT
    !.account = account,
    !.action = action,
    !.order_type = "LIT",
    !.total_quantity = quantity,
    !.lmt_price = limit_price,
    !.aux_price = trigger_price]

\* Order::limit_on_close_order (order.rs 1193-1207)
limit_on_close_order(account, action, quantity, limit_price) ==
  [Order_default EXCEPT
    !.account = account,
    !.action = action,
    !.order_type = "LOC",
    !.total_quantity = quantity,
    !.lmt_price = limit_price]

\* limit_on_open_order that also fills aux_price, as limit_if_touched_order does
limit_on_open_order_sets_aux(account, action, quantity, limit_price) ==
  [Order_default EXCEPT
    !.account = account,
    !.action = action,
    !.tif = "OPG",
    !.order_type = "LMT",
    !.total_quantity = quantity,
    !.lmt_price = limit_price,
    !.aux_price = limit_price]

\* Order::limit_on_open_order (order.rs 1214-1229)
limit_on_open_order(account, action, quantity, limit_price) ==
  [Order_default EXCEPT
    !.account = account,
    !.action = action,
    !.tif = "OPG",
    !.order_type = "LMT",
    !.total_quantity = quantity,
    !.lmt_price = limit_price]

\* Order::passive_relative_order (order.rs 1249-1258)
passive_relative_order(account, action, quantity, offset) ==
  [Order_default EXCEPT
    !.account = account,
    !.action = action,
    !.order_type = "PASSV REL",
    !.total_quantity = quantity,
    !.aux_price = offset]

\* Order::pegged_to_midpoint_order (order.rs 1268-1284)
pegged_to_midpoint_order(account, action, quantity, offset, limit_price) ==
  [Order_default EXCEPT
    !.account = account,
    !.action = action,
    !.order_type = "PEG MID",
    !.total_quantity = quantity,
    !.aux_price = offset,
    !.lmt_price = limit_price]

\* Order::market_to_limit_order (order.rs 1348-1356)
market_to_limit_order(account, action, quantity) ==
  [Order_default EXCEPT
    !.account = account,
    !.action = action,
    !.order_type = "MTL",
    !.total_quantity = quantity]

\* Order::market_with_protection_order (order.rs 1364-1372)
market_with_protection_order(account, action, quantity) ==
  [Order_default EXCEPT
    !.account = account,
    !.action = action,
    !.order_type = "MKT PRT",
    !.total_quantity = quantity]

\* Order::stop_order (order.rs 1383-1392)
stop_order(account, action, quantity, stop_price) ==
  [Order_default EXCEPT
    !.account = account,
    !.action = action,
    !.order_type = "STP",
    !.aux_price = stop_price,
    !.total_quantity = quantity]

\* stop_limit_order with the two prices exchanged
stop_limit_order_swapped(account, action, quantity, limit_price, stop_price) ==
  [Order_default EXCEPT
    !.account = account,
    !.action = action,
    !.order_type = "STP LMT",
    !.total_quantity = quantity,
    !.lmt_price = stop_price,
    !.aux_price = limit_price]

\* Order::stop_limit_order (order.rs 1401-1417)
stop_limit_order(account, action, quantity, limit_price, stop_price) ==
  [Order_default EXCEPT
    !.account = account,
    !.action = action,
    !.order_type = "STP LMT",
    !.total_quantity = quantity,
    !.lmt_price = limit_price,
    !.aux_price = stop_price]

\* Order::stop_with_protection_order (order.rs 1428-1442)
stop_with_protection_order(account, action, quantity, stop_price) ==
  [Order_default EXCEPT
    !.total_quantity = quantity,
    !.account = account,
    !.action = action,
    !.order_type = "STP PRT",
    !.aux_price = stop_price]

\* Order::trailing_stop_order (order.rs 1454-1470)
trailing_stop_order(account, action, quantity, trailing_percent, trail_stop_price) ==
  [Order_default EXCEPT
    !.account = account,
    !.action = action,
    !.order_type = "TRAIL",
    !.total_quantity = quantity,
    !.trailing_percent = trailing_percent,
    !.trail_stop_price = trail_stop_price]

\* Order::trailing_stop_limit_order (order.rs 1486-1504)
trailing_stop_limit_order(account, action, quantity, lmt_price_offset, trailing_amount, trail_stop_price) ==
  [Order_default EXCEPT
    !.account = account,
    !.action = action,
    !.order_type = "TRAIL LIMIT",
    !.total_quantity = quantity,
    !.trail_stop_price = trail_stop_price,
    !.lmt_price_offset = lmt_price_offset,
    !.aux_price = trailing_amount]

\* the fields each preset names in its struct literal (order.rs 719-1284, 1348-1504)
AssignedFields(name) ==
  CASE name = "default" -> {}
    [] name = "at_auction_order" -> {"account", "action", "tif", "order_type", "total_quantity", "lmt_price"}
    [] name = "discretionary_order" -> {"account", "action", "order_type", "total_quantity", "lmt_price", "discretionary_amt"}
    [] name = "market_order" -> {"account", "action", "order_type", "total_quantity"}
    [] name = "market_if_touched_order_order" -> {"account", "action", "order_type", "total_quantity", "aux_price"}
    [] name = "market_on_close_order" -> {"account", "action", "order_type", "total_quantity"}
    [] name = "market_on_open_order" -> {"account", "action", "order_type", "total_quantity", "tif"}
    [] name = "midpoint_match_order" -> {"account", "action", "order_type", "total_quantity"}
    [] name = "midprice_order" -> {"account", "action", "order_type", "total_quantity", "lmt_price"}
    [] name = "pegged_to_market_order" -> {"account", "action", "order_type", "total_quantity", "aux_price"}
    [] name = "pegged_to_stock_order" -> {"account", "action", "order_type", "total_quantity", "delta", "stock_ref_price", "starting_price"}
    [] name = "relative_pegged_to_primary_order" -> {"account", "action", "order_type", "total_quantity", "lmt_price", "aux_price"}
    [] name = "sweep_to_fill_order" -> {"account", "action", "order_type", "total_quantity", "lmt_price", "sweep_to_fill"}
    [] name = "auction_limit_order" -> {"account", "action", "order_type", "total_quantity", "lmt_price", "auction_strategy"}
    [] name = "auction_pegged_to_stock_order" -> {"account", "action", "order_type", "total_quantity", "delta", "starting_price"}
    [] name = "auction_relative_order" -> {"account", "action", "order_type", "total_quantity", "aux_price"}
    [] name = "block_order" -> {"account", "action", "order_type", "total_quantity", "lmt_price", "block_order"}
    [] name = "box_top_order" -> {"account", "action", "order_type", "total_quantity"}
    [] name = "limit_order" -> {"account", "action", "order_type", "total_quantity", "lmt_price"}
    [] name = "limit_order_with_cash_qty_order" -> {"account", "action", "order_type", "total_quantity", "lmt_price", "cash_qty"}
    [] name = "limit_if_touched_order" -> {"account", "action", "order_type", "total_quantity", "lmt_price", "aux_price"}
    [] name = "limit_on_close_order" -> {"account", "action", "order_type", "total_quantity", "lmt_price"}
    [] name = "limit_on_open_order" -> {"account", "action", "tif", "order_type", "total_quantity", "lmt_price"}
    [] name = "passive_relative_order" -> {"account", "action", "order_type", "total_quantity", "aux_price"}
    [] name = "pegged_to_midpoint_order" -> {"account", "action", "order_type", "total_quantity", "aux_price", "lmt_price"}
    [] name = "market_to_limit_order" -> {"account", "action", "order_type", "total_quantity"}
    [] name = "market_with_protection_order" -> {"account", "action", "order_type", "total_quantity"}
    [] name = "stop_order" -> {"account", "action", "order_type", "aux_price", "total_quantity"}
    [] name = "stop_limit_order" -> {"account", "action", "order_type", "total_quantity", "lmt_price", "aux_price"}
    [] name = "stop_with_protection_order" -> {"total_quantity", "account", "action", "order_type", "aux_price"}
    [] name = "trailing_stop_order" -> {"account", "action", "order_type", "total_quantity", "trailing_percent", "trail_stop_price"}
    [] name = "trailing_stop_limit_order" -> {"account", "action", "order_type", "total_quantity", "trail_stop_price", "lmt_price_offset", "aux_price"}

----------------------------------------------------------------------------
(* Calls of the single-order presets *)

Call_at_auction_order ==
  /\ call = "none"
  /\ \E account \in Accounts, action \in Actions, quantity \in Quantities, price \in Prices :
       /\ call' = "at_auction_order"
       /\ args' = [account |-> account, action |-> action, quantity |-> quantity, price |-> price]
       /\ ret' = at_auction_order(account, action, quantity, price)
  /\ UNCHANGED <<extVars, overflow_checks, bracketVars, ocaVars>>

Call_discretionary_order ==
  /\ call = "none"
  /\ \E account \in Accounts, action \in Actions, quantity \in Quantities, price \in Prices, discretionary_amount \in Prices :
       /\ call' = "discretionary_order"
       /\ args' = [account |-> account, action |-> action, quantity |-> quantity, price |-> price, discretionary_amount |-> discretionary_amount]
       /\ ret' = discretionary_order(account, action, quantity, price, discretionary_amount)
  /\ UNCHANGED <<extVars, overflow_checks, bracketVars, ocaVars>>

Call_market_order ==
  /\ call = "none"
  /\ \E account \in Accounts, action \in Actions, quantity \in Quantities :
       /\ call' = "market_order"
       /\ args' = [account |-> account, action |-> action, quantity |-> quantity]
       /\ ret' = market_order(account, action, quantity)
  /\ UNCHANGED <<extVars, overflow_checks, bracketVars, ocaVars>>

Call_market_if_touched_order_order ==
  /\ call = "none"
  /\ \E account \in Accounts, action \in Actions, quantity \in Quantities, price \in Prices :
       /\ call' = "market_if_touched_order_order"
       /\ args' = [account |-> account, action |-> action, quantity |-> quantity, price |-> price]
       /\ ret' = market_if_touched_order_order(account, action, quantity, price)
  /\ UNCHANGED <<extVars, overflow_checks, bracketVars, ocaVars>>

Call_market_on_close_order ==
  /\ call = "none"
  /\ \E account \in Accounts, action \in Actions, quantity \in Quantities :
       /\ call' = "market_on_close_order"
       /\ args' = [account |-> account, action |-> action, quantity |-> quantity]
       /\ ret' = market_on_close_order(account, action, quantity)
  /\ UNCHANGED <<extVars, overflow_checks, bracketVars, ocaVars>>

Call_market_on_open_order ==
  /\ call = "none"
  /\ \E account \in Accounts, action \in Actions, quantity \in Quantities :
       /\ call' = "market_on_open_order"
       /\ args' = [account |-> account, action |-> action, quantity |-> quantity]
       /\ ret' = market_on_open_order(account, action, quantity)
  /\ UNCHANGED <<extVars, overflow_checks, bracketVars, ocaVars>>

Call_midpoint_match_order ==
  /\ call = "none"
  /\ \E account \in Accounts, action \in Actions, quantity \in Quantities :
       /\ call' = "midpoint_match_order"
       /\ args' = [account |-> account, action |-> action, quantity |-> quantity]
       /\ ret' = midpoint_match_order(account, action, quantity)
  /\ UNCHANGED <<extVars, overflow_checks, bracketVars, ocaVars>>

Call_midprice_order ==
  /\ call = "none"
  /\ \E account \in Accounts, action \in Actions, quantity \in Quantities, price_cap \in Prices :
       /\ call' = "midprice_order"
       /\ args' = [account |-> account, action |-> action, quantity |-> quantity, price_cap |-> price_cap]
       /\ ret' = midprice_order(account, action, quantity, price_cap)
  /\ UNCHANGED <<extVars, overflow_checks, bracketVars, ocaVars>>

Call_pegged_to_market_order ==
  /\ call = "none"
  /\ \E account \in Accounts, action \in Actions, quantity \in Quantities, market_offset \in Prices :
       /\ call' = "pegged_to_market_order"
       /\ args' = [account |-> account, action |-> action, quantity |-> quantity, market_offset |-> market_offset]
       /\ ret' = pegged_to_market_order(account, action, quantity, market_offset)
  /\ UNCHANGED <<extVars, overflow_checks, bracketVars, ocaVars>>

Call_pegged_to_stock_order ==
  /\ call = "none"
  /\ \E account \in Accounts, action \in Actions, quantity \in Quantities, delta \in Prices, stock_reference_price \in Prices, starting_price \in Prices :
       /\ call' = "pegged_to_stock_order"
       /\ args' = [account |-> account, action |-> action, quantity |-> quantity, delta |-> delta, stock_reference_price |-> stock_reference_price, starting_price |-> starting_price]
       /\ ret' = pegged_to_stock_order(account, action, quantity, delta, stock_reference_price, starting_price)
  /\ UNCHANGED <<extVars, overflow_checks, bracketVars, ocaVars>>

Call_relative_pegged_to_primary_order ==
  /\ call = "none"
  /\ \E account \in Accounts, action \in Actions, quantity \in Quantities, price_cap \in Prices, offset_amount \in Prices :
       /\ call' = "relative_pegged_to_primary_order"
       /\ args' = [account |-> account, action |-> action, quantity |-> quantity, price_cap |-> price_cap, offset_amount |-> offset_amount]
       /\ ret' = relative_pegged_to_primary_order(account, action, quantity, price_cap, offset_amount)
  /\ UNCHANGED <<extVars, overflow_checks, bracketVars, ocaVars>>

Call_sweep_to_fill_order ==
  /\ call = "none"
  /\ \E account \in Accounts, action \in Actions, quantity \in Quantities, price \in Prices :
       /\ call' = "sweep_to_fill_order"
       /\ args' = [account |-> account, action |-> action, quantity |-> quantity, price |-> price]
       /\ ret' = sweep_to_fill_order(account, action, quantity, price)
  /\ UNCHANGED <<extVars, overflow_checks, bracketVars, ocaVars>>

Call_auction_limit_order ==
  /\ call = "none"
  /\ \E account \in Accounts, action \in Actions, quantity \in Quantities, price \in Prices, auction_strategy \in AuctionStrategies :
       /\ call' = "auction_limit_order"
       /\ args' = [account |-> account, action |-> action, quantity |-> quantity, price |-> price, auction_strategy |-> auction_strategy]
       /\ ret' = auction_limit_order(account, action, quantity, price, auction_strategy)
  /\ UNCHANGED <<extVars, overflow_checks, bracketVars, ocaVars>>

Call_auction_pegged_to_stock_order ==
  /\ call = "none"
  /\ \E account \in Accounts, action \in Actions, quantity \in Quantities, starting_price \in Prices, delta \in Prices :
       /\ call' = "auction_pegged_to_stock_order"
       /\ args' = [account |-> account, action |-> action, quantity |-> quantity, starting_price |-> starting_price, delta |-> delta]
       /\ ret' = auction_pegged_to_stock_order(account, action, quantity, starting_price, delta)
  /\ UNCHANGED <<extVars, overflow_checks, bracketVars, ocaVars>>

Call_auction_relative_order ==
  /\ call = "none"
  /\ \E account \in Accounts, action \in Actions, quantity \in Quantities, offset \in Prices :
       /\ call' = "auction_relative_order"
       /\ args' = [account |-> account, action |-> action, quantity |-> quantity, offset |-> offset]
       /\ ret' = auction_relative_order(account, action, quantity, offset)
  /\ UNCHANGED <<extVars, overflow_checks, bracketVars, ocaVars>>

Call_block_order ==
  /\ call = "none"
  /\ \E account \in Accounts, action \in Actions, quantity \in Quantities, price \in Prices :
       /\ call' = "block_order"
       /\ args' = [account |-> account, action |-> action, quantity |-> quantity, price |-> price]
       /\ ret' = block_order(account, action, quantity, price)
  /\ UNCHANGED <<extVars, overflow_checks, bracketVars, ocaVars>>

Call_box_top_order ==
  /\ call = "none"
  /\ \E account \in Accounts, action \in Actions, quantity \in Quantities :
       /\ call' = "box_top_order"
       /\ args' = [account |-> account, action |-> action, quantity |-> quantity]
       /\ ret' = box_top_order(account, action, quantity)
  /\ UNCHANGED <<extVars, overflow_checks, bracketVars, ocaVars>>

Call_limit_order ==
  /\ call = "none"
  /\ \E account \in Accounts, action \in Actions, quantity \in Quantities, limit_price \in Prices :
       /\ call' = "limit_order"
       /\ args' = [account |-> account, action |-> action, quantity |-> quantity, limit_price |-> limit_price]
       /\ ret' = limit_order(account, action, quantity, limit_price)
  /\ UNCHANGED <<extVars, overflow_checks, bracketVars, ocaVars>>

Call_limit_order_with_cash_qty_order ==
  /\ call = "none"
  /\ \E account \in Accounts, action \in Actions, quantity \in Quantities, limit_price \in Prices, cash_qty \in Prices :
       /\ call' = "limit_order_with_cash_qty_order"
       /\ args' = [account |-> account, action |-> action, quantity |-> quantity, limit_price |-> limit_price, cash_qty |-> cash_qty]
       /\ ret' = limit_order_with_cash_qty_order(account, action, quantity, limit_price, cash_qty)
  /\ UNCHANGED <<extVars, overflow_checks, bracketVars, ocaVars>>

Call_limit_if_touched_order ==
  /\ call = "none"
  /\ \E account \in Accounts, action \in Actions, quantity \in Quantities, limit_price \in Prices, trigger_price \in Prices :
       /\ call' = "limit_if_touched_order"
       /\ args' = [account |-> account, action |-> action, quantity |-> quantity, limit_price |-> limit_price, trigger_price |-> trigger_price]
       /\ ret' = limit_if_touched_order(account, action, quantity, limit_price, trigger_price)
  /\ UNCHANGED <<extVars, overflow_checks, bracketVars, ocaVars>>

Call_limit_on_close_order ==
  /\ call = "none"
  /\ \E account \in Accounts, action \in Actions, quantity \in Quantities, limit_price \in Prices :
       /\ call' = "limit_on_close_order"
       /\ args' = [account |-> account, action |-> action, quantity |-> quantity, limit_price |-> limit_price]
       /\ ret' = limit_on_close_order(account, action, quantity, limit_price)
  /\ UNCHANGED <<extVars, overflow_checks, bracketVars, ocaVars>>

Call_limit_on_open_order ==
  /\ call = "none"
  /\ \E account \in Accounts, action \in Actions, quantity \in Quantities, limit_price \in Prices :
       /\ call' = "limit_on_open_order"
       /\ args' = [account |-> account, action |-> action, quantity |-> quantity, limit_price |-> limit_price]
       /\ ret' = limit_on_open_order(account, action, quantity, limit_price)
  /\ UNCHANGED <<extVars, overflow_checks, bracketVars, ocaVars>>

Call_passive_relative_order ==
  /\ call = "none"
  /\ \E account \in Accounts, action \in Actions, quantity \in Quantities, offset \in Prices :
       /\ call' = "passive_relative_order"
       /\ args' = [account |-> account, action |-> action, quantity |-> quantity, offset |-> offset]
       /\ ret' = passive_relative_order(account, action, quantity, offset)
  /\ UNCHANGED <<extVars, overflow_checks, bracketVars, ocaVars>>

Call_pegged_to_midpoint_order ==
  /\ call = "none"
  /\ \E account \in Accounts, action \in Actions, quantity \in Quantities, offset \in Prices, limit_price \in Prices :
       /\ call' = "pegged_to_midpoint_order"
       /\ args' = [account |-> account, action |-> action, quantity |-> quantity, offset |-> offset, limit_price |-> limit_price]
       /\ ret' = pegged_to_midpoint_order(account, action, quantity, offset, limit_price)
  /\ UNCHANGED <<extVars, overflow_checks, bracketVars, ocaVars>>

Call_market_to_limit_order ==
  /\ call = "none"
  /\ \E account \in Accounts, action \in Actions, quantity \in Quantities :
       /\ call' = "market_to_limit_order"
       /\ args' = [account |-> account, action |-> action, quantity |-> quantity]
       /\ ret' = market_to_limit_order(account, action, quantity)
  /\ UNCHANGED <<extVars, overflow_checks, bracketVars, ocaVars>>

Call_market_with_protection_order ==
  /\ call = "none"
  /\ \E account \in Accounts, action \in Actions, quantity \in Quantities :
       /\ call' = "market_with_protection_order"
       /\ args' = [account |-> account, action |-> action, quantity |-> quantity]
       /\ ret' = market_with_protection_order(account, action, quantity)
  /\ UNCHANGED <<extVars, overflow_checks, bracketVars, ocaVars>>

Call_stop_order ==
  /\ call = "none"
  /\ \E account \in Accounts, action \in Actions, quantity \in Quantities, stop_price \in Prices :
       /\ call' = "stop_order"
       /\ args' = [account |-> account, action |-> action, quantity |-> quantity, stop_price |-> stop_price]
       /\ ret' = stop_order(account, action, quantity, stop_price)
  /\ UNCHANGED <<extVars, overflow_checks, bracketVars, ocaVars>>

Call_stop_limit_order ==
  /\ call = "none"
  /\ \E account \in Accounts, action \in Actions, quantity \in Quantities, limit_price \in Prices, stop_price \in Prices :
       /\ call' = "stop_limit_order"
       /\ args' = [account |-> account, action |-> action, quantity |-> quantity, limit_price |-> limit_price, stop_price |-> stop_price]
       /\ ret' = stop_limit_order(account, action, quantity, limit_price, stop_price)
  /\ UNCHANGED <<extVars, overflow_checks, bracketVars, ocaVars>>

Call_stop_with_protection_order ==
  /\ call = "none"
  /\ \E account \in Accounts, action \in Actions, quantity \in Quantities, stop_price \in Prices :
       /\ call' = "stop_with_protection_order"
       /\ args' = [account |-> account, action |-> action, quantity |-> quantity, stop_price |-> stop_price]
       /\ ret' = stop_with_protection_order(account, action, quantity, stop_price)
  /\ UNCHANGED <<extVars, overflow_checks, bracketVars, ocaVars>>

Call_trailing_stop_order ==
  /\ call = "none"
  /\ \E account \in Accounts, action \in Actions, quantity \in Quantities, trailing_percent \in Prices, trail_stop_price \in Prices :
       /\ call' = "trailing_stop_order"
       /\ args' = [account |-> account, action |-> action, quantity |-> quantity, trailing_percent |-> trailing_percent, trail_stop_price |-> trail_stop_price]
       /\ ret' = trailing_stop_order(account, action, quantity, trailing_percent, trail_stop_price)
  /\ UNCHANGED <<extVars, overflow_checks, bracketVars, ocaVars>>

Call_trailing_stop_limit_order ==
  /\ call = "none"
  /\ \E account \in Accounts, action \in Actions, quantity \in Quantities, lmt_price_offset \in Prices, trailing_amount \in Prices, trail_stop_price \in Prices :
       /\ call' = "trailing_stop_limit_order"
       /\ args' = [account |-> account, action |-> action, quantity |-> quantity, lmt_price_offset |-> lmt_price_offset, trailing_amount |-> trailing_amount, trail_stop_price |-> trail_stop_price]
       /\ ret' = trailing_stop_limit_order(account, action, quantity, lmt_price_offset, trailing_amount, trail_stop_price)
  /\ UNCHANGED <<extVars, overflow_checks, bracketVars, ocaVars>>
----------------------------------------------------------------------------
(* bracket_order *)

\* i32 `+` overflows (order.rs 1315, 1326); b > 0
i32_add_overflows(a, b) == a > I32Max - b

\* the two's-complement result of i32 `+` (release profile); b > 0
i32_wrapping_add(a, b) ==
  IF i32_add_overflows(a, b) THEN I32Min + ((b - 1) - (I32Max - a)) ELSE a + b

\* opposite_action comparing without regard to case
opposite_action_ignoring_case(action) ==
  IF action \in {"BUY", "buy"} THEN "SELL" ELSE "BUY"

\* opposite_action with the two branches exchanged
opposite_action_same_side(action) == IF action = "BUY" THEN "BUY" ELSE "SELL"

\* `if action == "BUY" { "SELL" } else { "BUY" }` (order.rs 1316, 1327)
opposite_action(action) == IF action = "BUY" THEN "SELL" ELSE "BUY"

\* bracket_parent without `transmit: false`: the parent keeps the default
bracket_parent_transmits(parent_order_id, account, action, quantity, limit_price) ==
  [Order_default EXCEPT
    !.order_id = parent_order_id,
    !.account = account,
    !.action = action,
    !.order_type = "LMT",
    !.total_quantity = quantity,
    !.lmt_price = limit_price]

\* let parent = Self { .. } (order.rs 1301-1312)
bracket_parent(parent_order_id, account, action, quantity, limit_price) ==
  [Order_default EXCEPT
    !.order_id = parent_order_id,
    !.account = account,
    !.action = action,
    !.order_type = "LMT",
    !.total_quantity = quantity,
    !.lmt_price = limit_price,
    !.transmit = FALSE]

\* bracket_take_profit with `transmit: true`
bracket_take_profit_transmits(parent, parent_order_id, action, quantity, take_profit_limit_price) ==
  [Order_default EXCEPT
    !.order_id = i32_wrapping_add(parent.order_id, 1),
    !.action = opposite_action(action),
    !.order_type = "LMT",
    !.total_quantity = quantity,
    !.lmt_price = take_profit_limit_price,
    !.parent_id = parent_order_id,
    !.transmit = TRUE]

\* let take_profit = Self { .. } (order.rs 1314-1323)
bracket_take_profit(parent, parent_order_id, action, quantity, take_profit_limit_price) ==
  [Order_default EXCEPT
    !.order_id = i32_wrapping_add(parent.order_id, 1),
    !.action = opposite_action(action),
    !.order_type = "LMT",
    !.total_quantity = quantity,
    !.lmt_price = take_profit_limit_price,
    !.parent_id = parent_order_id,
    !.transmit = FALSE]

\* bracket_stop_loss with parent_id taken from the take-profit's id
bracket_stop_loss_wrong_parent(parent, parent_order_id, action, quantity, stop_loss_price) ==
  [Order_default EXCEPT
    !.order_id = i32_wrapping_add(parent.order_id, 2),
    !.action = opposite_action(action),
    !.order_type = "STP",
    !.aux_price = stop_loss_price,
    !.total_quantity = quantity,
    !.parent_id = i32_wrapping_add(parent.order_id, 1),
    !.transmit = TRUE]

\* let stop_loss = Self { .. } (order.rs 1325-1337)
bracket_stop_loss(parent, parent_order_id, action, quantity, stop_loss_price) ==
  [Order_default EXCEPT
    !.order_id = i32_wrapping_add(parent.order_id, 2),
    !.action = opposite_action(action),
    !.order_type = "STP",
    !.aux_price = stop_loss_price,
    !.total_quantity = quantity,
    !.parent_id = parent_order_id,
    !.transmit = TRUE]

\* Order::bracket_order (order.rs 1291-1340).  With overflow checks on (debug
\* profile) an overflowing `parent.order_id + 1` or `+ 2` panics; with them off
\* (release profile) it wraps.
bracket_order(parent_order_id, account, action, quantity, limit_price, take_profit_limit_price, stop_loss_price) ==
  LET parent == bracket_parent(parent_order_id, account, action, quantity, limit_price)
      take_profit == bracket_take_profit(parent, parent_order_id, action, quantity,
                                         take_profit_limit_price)
      stop_loss == bracket_stop_loss(parent, parent_order_id, action, quantity,
                                     stop_loss_price)
  IN  IF overflow_checks /\ (i32_add_overflows(parent.order_id, 1)
                              \/ i32_add_overflows(parent.order_id, 2))
      THEN [status |-> "panic", orders |-> <<>>]
      ELSE [status |-> "ok", orders |-> <<parent, take_profit, stop_loss>>]

\* the caller calls bracket_order once
Call_bracket_order ==
  /\ bracket.status = "none"
  /\ \E parent_order_id \in ParentOrderIds, account \in Accounts, action \in Actions,
        quantity \in Quantities, limit_price \in BracketPrices,
        take_profit_limit_price \in BracketPrices, stop_loss_price \in BracketPrices :
       bracket' = bracket_order(parent_order_id, account, action, quantity, limit_price,
                                take_profit_limit_price, stop_loss_price)
                  @@ [args |-> [parent_order_id |-> parent_order_id,
                                account |-> account, action |-> action,
                                quantity |-> quantity, limit_price |-> limit_price,
                                take_profit_limit_price |-> take_profit_limit_price,
                                stop_loss_price |-> stop_loss_price]]
  /\ UNCHANGED <<extVars, overflow_checks, submitted, held, active, presetVars, ocaVars>>

----------------------------------------------------------------------------
(* The venue the bracket is sent to: it holds an order received with       *)
(* transmit = false and, on an order with transmit = true, activates it     *)
(* together with the held orders linked to it (order.rs 242-245, 1308-1310, *)
(* 1333-1335).                                                              *)

\* held order h belongs to the same parent/child group as the transmitted order o:
\* parent_id associates a child with the original order (order.rs 244-245)
Linked(h, o) ==
  \/ h.order_id = o.parent_id
  \/ h.parent_id = o.parent_id
  \/ h.parent_id = o.order_id

\* the caller sends the next order of the tuple (parent, take_profit, stop_loss)
Submit ==
  /\ bracket.status = "ok"
  /\ submitted < Len(bracket.orders)
  /\ LET o == bracket.orders[submitted + 1]
     IN  IF o.transmit
         THEN LET woken == {h \in held : Linked(h, o)}
              IN  /\ active' = active \cup {o} \cup woken
                  /\ held' = held \ woken
         ELSE /\ held' = held \cup {o}
              /\ active' = active
  /\ submitted' = submitted + 1
  /\ UNCHANGED <<extVars, overflow_checks, bracket, presetVars, ocaVars>>

----------------------------------------------------------------------------
(* one_cancels_all_order *)

\* one_cancels_all_order whose loop also clears transmit on each order
one_cancels_all_order_clears_transmit(oca_group, oca_orders, oca_type) ==
  [i \in 1..Len(oca_orders) |->
     [oca_orders[i] EXCEPT !.oca_group = oca_group, !.oca_type = oca_type,
                           !.transmit = FALSE]]

\* Order::one_cancels_all_order (order.rs 1687-1692): the Vec is taken by value;
\* `for mut order in oca_orders` moves each element into the loop variable, the
\* two assignments change that local, and it is dropped at the end of the
\* iteration.  The function returns ().  The value below is the sequence of the
\* loop's locals as they are when they are dropped.
one_cancels_all_order(oca_group, oca_orders, oca_type) ==
  [i \in 1..Len(oca_orders) |->
     [oca_orders[i] EXCEPT !.oca_group = oca_group, !.oca_type = oca_type]]

\* the caller puts one more order, made by a preset, into its Vec
Caller_push ==
  /\ ~oca.called
  /\ Len(caller_orders) < MaxOrders
  /\ \E account \in Accounts, action \in {"BUY", "SELL"}, price \in BracketPrices :
       \/ caller_orders' = Append(caller_orders, limit_order(account, action, "100.0", price))
       \/ caller_orders' = Append(caller_orders, stop_order(account, action, "100.0", price))
  /\ UNCHANGED <<extVars, overflow_checks, caller_owns, oca, presetVars, bracketVars>>

\* the caller calls one_cancels_all_order on its Vec.  The parameter is
\* Vec<Self>, so the caller either moves its Vec into the call (and owns no
\* orders afterwards) or passes a clone (and keeps its own, which the function
\* never sees).
Call_one_cancels_all_order ==
  /\ ~oca.called
  /\ \E oca_group \in OcaGroups, oca_type \in OcaTypes, passing \in {"move", "clone"} :
       /\ oca' = [called |-> TRUE, oca_group |-> oca_group, oca_type |-> oca_type,
                  oca_orders |-> caller_orders,
                  dropped |-> one_cancels_all_order(oca_group, caller_orders, oca_type)]
       /\ caller_owns' = (passing = "clone")
       /\ caller_orders' = IF passing = "clone" THEN caller_orders ELSE <<>>
  /\ UNCHANGED <<extVars, overflow_checks, presetVars, bracketVars>>

----------------------------------------------------------------------------
(* Adjustable attached stops: attach_adjustable_to_*_order (order.rs 1782-1874) *)

\* the parent orders the caller passes: a limit order that was given an id
AttachParents ==
  {[limit_order(account, action, quantity, "50.5") EXCEPT !.order_id = order_id] :
     account \in Accounts, action \in Actions, quantity \in Quantities,
     order_id \in {0, 42}}

\* trail_unit: 0 = amount, 1 = percent, and a value outside the two
TrailUnits == {0, 1, 100}

\* attach_adjustable_to_stop_order writing its adjusted stop price to the
\* adjusted limit price as well
attach_adjustable_to_stop_order_with_limit(parent, attached_order_stop_price, trigger_price, adjust_stop_price) ==
  [stop_order(parent.account, opposite_action(parent.action), parent.total_quantity,
              attached_order_stop_price)
     EXCEPT !.parent_id = parent.order_id,
            !.trigger_price = trigger_price,
            !.adjusted_order_type = "STP",
            !.adjusted_stop_price = adjust_stop_price,
            !.adjusted_stop_limit_price = adjust_stop_price]

\* Order::attach_adjustable_to_stop_order (order.rs 1782-1809)
attach_adjustable_to_stop_order(parent, attached_order_stop_price, trigger_price, adjust_stop_price) ==
  [stop_order(parent.account, opposite_action(parent.action), parent.total_quantity,
              attached_order_stop_price)
     EXCEPT !.parent_id = parent.order_id,
            !.trigger_price = trigger_price,
            !.adjusted_order_type = "STP",
            !.adjusted_stop_price = adjust_stop_price]

\* Order::attach_adjustable_to_stop_limit_order (order.rs 1811-1840)
attach_adjustable_to_stop_limit_order(parent, attached_order_stop_price, trigger_price, adjusted_stop_price, adjusted_stop_limit_price) ==
  [stop_order(parent.account, opposite_action(parent.action), parent.total_quantity,
              attached_order_stop_price)
     EXCEPT !.parent_id = parent.order_id,
            !.trigger_price = trigger_price,
            !.adjusted_order_type = "STP LMT",
            !.adjusted_stop_price = adjusted_stop_price,
            !.adjusted_stop_limit_price = adjusted_stop_limit_price]

\* attach_adjustable_to_trail_order with the trigger price written to the
\* adjusted stop price and the trigger price left unset
attach_adjustable_to_trail_order_no_trigger(parent, attached_order_stop_price, trigger_price, adjusted_stop_price, adjusted_trail_amount, trail_unit) ==
  [stop_order(parent.account, opposite_action(parent.action), parent.total_quantity,
              attached_order_stop_price)
     EXCEPT !.parent_id = parent.order_id,
            !.adjusted_order_type = "TRAIL",
            !.adjusted_stop_price = trigger_price,
            !.adjustable_trailing_unit = trail_unit,
            !.adjusted_trailing_amount = adjusted_trail_amount]

\* Order::attach_adjustable_to_trail_order (order.rs 1842-1874)
attach_adjustable_to_trail_order(parent, attached_order_stop_price, trigger_price, adjusted_stop_price, adjusted_trail_amount, trail_unit) ==
  [stop_order(parent.account, opposite_action(parent.action), parent.total_quantity,
              attached_order_stop_price)
     EXCEPT !.parent_id = parent.order_id,
            !.trigger_price = trigger_price,
            !.adjusted_order_type = "TRAIL",
            !.adjusted_stop_price = adjusted_stop_price,
            !.adjustable_trailing_unit = trail_unit,
            !.adjusted_trailing_amount = adjusted_trail_amount]

Call_attach_adjustable_to_stop_order ==
  /\ ~attach.called
  /\ \E parent \in AttachParents, attached_order_stop_price \in Prices,
        trigger_price \in BracketPrices, adjust_stop_price \in BracketPrices :
       attach' = [called |-> TRUE, fn |-> "attach_adjustable_to_stop_order",
                  parent |-> parent,
                  args |-> [attached_order_stop_price |-> attached_order_stop_price,
                            trigger_price |-> trigger_price,
                            adjust_stop_price |-> adjust_stop_price],
                  order |-> attach_adjustable_to_stop_order(parent,
                              attached_order_stop_price, trigger_price, adjust_stop_price)]
  /\ UNCHANGED <<lateVars, coreVars, display, combo, condVars, decoded>>

Call_attach_adjustable_to_stop_limit_order ==
  /\ ~attach.called
  /\ \E parent \in AttachParents, attached_order_stop_price \in Prices,
        trigger_price \in BracketPrices, adjusted_stop_price \in BracketPrices,
        adjusted_stop_limit_price \in BracketPrices :
       attach' = [called |-> TRUE, fn |-> "attach_adjustable_to_stop_limit_order",
                  parent |-> parent,
                  args |-> [attached_order_stop_price |-> attached_order_stop_price,
                            trigger_price |-> trigger_price,
                            adjusted_stop_price |-> adjusted_stop_price,
                            adjusted_stop_limit_price |-> adjusted_stop_limit_price],
                  order |-> attach_adjustable_to_stop_limit_order(parent,
                              attached_order_stop_price, trigger_price,
                              adjusted_stop_price, adjusted_stop_limit_price)]
  /\ UNCHANGED <<lateVars, coreVars, display, combo, condVars, decoded>>

Call_attach_adjustable_to_trail_order ==
  /\ ~attach.called
  /\ \E parent \in AttachParents, attached_order_stop_price \in Prices,
        trigger_price \in BracketPrices, adjusted_stop_price \in BracketPrices,
        adjusted_trail_amount \in Prices, trail_unit \in TrailUnits :
       attach' = [called |-> TRUE, fn |-> "attach_adjustable_to_trail_order",
                  parent |-> parent,
                  args |-> [attached_order_stop_price |-> attached_order_stop_price,
                            trigger_price |-> trigger_price,
                            adjusted_stop_price |-> adjusted_stop_price,
                            adjusted_trail_amount |-> adjusted_trail_amount,
                            trail_unit |-> trail_unit],
                  order |-> attach_adjustable_to_trail_order(parent,
                              attached_order_stop_price, trigger_price,
                              adjusted_stop_price, adjusted_trail_amount, trail_unit)]
  /\ UNCHANGED <<lateVars, coreVars, display, combo, condVars, decoded>>

----------------------------------------------------------------------------
(* Combination presets (order.rs 1513-1667) *)

\* largest leg_prices list the caller passes
MaxLegs == 3

\* leg prices, a negative one among them
LegPrices == {"1.5", "-0.25", "3.0"}

\* leg_prices: Vec<f64>, the empty list and lists with repeated prices included
LegPriceLists == UNION {[1..n -> LegPrices] : n \in 0..MaxLegs}

\* crate::core::common::TagValue::new (imported at order.rs 8; fields tag and
\* value as read at order.rs 2082)
TagValue_new(tag, value) == [tag |-> tag, value |-> value]

\* OrderComboLeg::new (order.rs 203-205)
OrderComboLeg_new(price) == [price |-> price]

\* if non_guaranteed { order.smart_combo_routing_params.push(TagValue::new("NonGuaranteed", "1")) }
push_non_guaranteed(order, non_guaranteed) ==
  IF non_guaranteed
  THEN [order EXCEPT !.smart_combo_routing_params =
          Append(@, TagValue_new("NonGuaranteed", "1"))]
  ELSE order

\* Order::combo_limit_order (order.rs 1513-1538)
combo_limit_order(account, action, quantity, limit_price, non_guaranteed) ==
  push_non_guaranteed(
    [Order_default EXCEPT !.account = account, !.action = action, !.order_type = "LMT",
       !.tif = "GTC", !.total_quantity = quantity, !.lmt_price = limit_price],
    non_guaranteed)

\* Order::combo_market_order (order.rs 1548-1569)
combo_market_order(account, action, quantity, non_guaranteed) ==
  push_non_guaranteed(
    [Order_default EXCEPT !.account = account, !.action = action, !.order_type = "MKT",
       !.total_quantity = quantity],
    non_guaranteed)

\* limit_for_combo_with_leg_prices_order collecting the legs last price first
limit_for_combo_with_leg_prices_order_reversed(account, action, quantity, leg_prices, non_guaranteed) ==
  push_non_guaranteed(
    [Order_default EXCEPT !.account = account, !.action = action, !.order_type = "LMT",
       !.total_quantity = quantity,
       !.order_combo_legs = [i \in 1..Len(leg_prices) |->
                               OrderComboLeg_new(leg_prices[Len(leg_prices) + 1 - i])]],
    non_guaranteed)

\* Order::limit_for_combo_with_leg_prices_order (order.rs 1578-1604)
limit_for_combo_with_leg_prices_order(account, action, quantity, leg_prices, non_guaranteed) ==
  push_non_guaranteed(
    [Order_default EXCEPT !.account = account, !.action = action, !.order_type = "LMT",
       !.total_quantity = quantity,
       !.order_combo_legs = [i \in 1..Len(leg_prices) |-> OrderComboLeg_new(leg_prices[i])]],
    non_guaranteed)

\* Order::relative_limit_combo_order (order.rs 1613-1636)
relative_limit_combo_order(account, action, quantity, limit_price, non_guaranteed) ==
  push_non_guaranteed(
    [Order_default EXCEPT !.account = account, !.action = action,
       !.total_quantity = quantity, !.order_type = "REL + LMT", !.lmt_price = limit_price],
    non_guaranteed)

\* relative_market_combo_order pushing the tag whatever non_guaranteed is
relative_market_combo_order_always_tagged(account, action, quantity, non_guaranteed) ==
  push_non_guaranteed(
    [Order_default EXCEPT !.account = account, !.action = action,
       !.total_quantity = quantity, !.order_type = "REL + MKT"],
    TRUE)

\* Order::relative_market_combo_order (order.rs 1645-1667)
relative_market_combo_order(account, action, quantity, non_guaranteed) ==
  push_non_guaranteed(
    [Order_default EXCEPT !.account = account, !.action = action,
       !.total_quantity = quantity, !.order_type = "REL + MKT"],
    non_guaranteed)

Call_combo_limit_order ==
  /\ ~combo.called
  /\ \E account \in Accounts, action \in Actions, quantity \in Quantities,
        limit_price \in Prices, non_guaranteed \in BOOLEAN :
       combo' = [called |-> TRUE, fn |-> "combo_limit_order",
                 args |-> [account |-> account, action |-> action, quantity |-> quantity,
                           limit_price |-> limit_price, non_guaranteed |-> non_guaranteed],
                 order |-> combo_limit_order(account, action, quantity, limit_price,
                                             non_guaranteed)]
  /\ UNCHANGED <<lateVars, coreVars, display, attach, condVars, decoded>>

Call_combo_market_order ==
  /\ ~combo.called
  /\ \E account \in Accounts, action \in Actions, quantity \in Quantities,
        non_guaranteed \in BOOLEAN :
       combo' = [called |-> TRUE, fn |-> "combo_market_order",
                 args |-> [account |-> account, action |-> action, quantity |-> quantity,
                           non_guaranteed |-> non_guaranteed],
                 order |-> combo_market_order(account, action, quantity, non_guaranteed)]
  /\ UNCHANGED <<lateVars, coreVars, display, attach, condVars, decoded>>

Call_limit_for_combo_with_leg_prices_order ==
  /\ ~combo.called
  /\ \E account \in Accounts, action \in Actions, quantity \in Quantities,
        leg_prices \in LegPriceLists, non_guaranteed \in BOOLEAN :
       combo' = [called |-> TRUE, fn |-> "limit_for_combo_with_leg_prices_order",
                 args |-> [account |-> account, action |-> action, quantity |-> quantity,
                           leg_prices |-> leg_prices, non_guaranteed |-> non_guaranteed],
                 order |-> limit_for_combo_with_leg_prices_order(account, action, quantity,
                                                                 leg_prices, non_guaranteed)]
  /\ UNCHANGED <<lateVars, coreVars, display, attach, condVars, decoded>>

Call_relative_limit_combo_order ==
  /\ ~combo.called
  /\ \E account \in Accounts, action \in Actions, quantity \in Quantities,
        limit_price \in Prices, non_guaranteed \in BOOLEAN :
       combo' = [called |-> TRUE, fn |-> "relative_limit_combo_order",
                 args |-> [account |-> account, action |-> action, quantity |-> quantity,
                           limit_price |-> limit_price, non_guaranteed |-> non_guaranteed],
                 order |-> relative_limit_combo_order(account, action, quantity, limit_price,
                                                      non_guaranteed)]
  /\ UNCHANGED <<lateVars, coreVars, display, attach, condVars, decoded>>

Call_relative_market_combo_order ==
  /\ ~combo.called
  /\ \E account \in Accounts, action \in Actions, quantity \in Quantities,
        non_guaranteed \in BOOLEAN :
       combo' = [called |-> TRUE, fn |-> "relative_market_combo_order",
                 args |-> [account |-> account, action |-> action, quantity |-> quantity,
                           non_guaranteed |-> non_guaranteed],
                 order |-> relative_market_combo_order(account, action, quantity,
                                                       non_guaranteed)]
  /\ UNCHANGED <<lateVars, coreVars, display, attach, condVars, decoded>>

----------------------------------------------------------------------------
(* Formatting of f64 values by the standard formatter *)

\* "{}" of an f64: shortest decimal form, no exponent, no ".0"
f64_fmt_display(x) ==
  CASE x = "0.0" -> "0"
    [] x = "50.5" -> "50.5"
    [] x = "50.0" -> "50"
    [] x = "100.0" -> "100"
    [] x = "-1.0" -> "-1"
    [] x = "1.5" -> "1.5"
    [] x = "-0.25" -> "-0.25"
    [] x = "3.0" -> "3"
    [] x = UNSET_DOUBLE ->
         "179769313486231570000000000000000000000000000000000000000000000000000000000000000000000000000000000000000000000000000000000000000000000000000000000000000000000000000000000000000000000000000000000000000000000000000000000000000000000000000000000000000000000000000000000000000000000000000000000000000000000000000"

\* "{:?}" of an f64: as "{}", with ".0" kept and an exponent for large values
f64_fmt_debug(x) ==
  CASE x = "0.0" -> "0.0"
    [] x = "50.5" -> "50.5"
    [] x = "50.0" -> "50.0"
    [] x = "100.0" -> "100.0"
    [] x = "-1.0" -> "-1.0"
    [] x = "1.5" -> "1.5"
    [] x = "-0.25" -> "-0.25"
    [] x = "3.0" -> "3.0"
    [] x = UNSET_DOUBLE -> "1.7976931348623157e308"

\* "{:E}" of an f64: scientific form with an upper-case E
f64_fmt_upper_exp(x) ==
  CASE x = "0.0" -> "0E0"
    [] x = "50.5" -> "5.05E1"
    [] x = "50.0" -> "5E1"
    [] x = "100.0" -> "1E2"
    [] x = "-1.0" -> "-1E0"
    [] x = "1.5" -> "1.5E0"
    [] x = "-0.25" -> "-2.5E-1"
    [] x = "3.0" -> "3E0"
    [] x = UNSET_DOUBLE -> "1.7976931348623157E308"

----------------------------------------------------------------------------
(* Conditions: the *_condition_order builders (order.rs 1876-2033).  A     *)
(* condition is a record of the fields of its struct, the embedded         *)
(* contract_condition / operator_condition / order_condition flattened;    *)
(* `variant` is the struct (PriceCondition, ...), cond_type the tag field. *)
(* create_condition, the conversion into a variant, TriggerMethod and      *)
(* make_fields are defined in crate::core::order_condition, which is not   *)
(* part of src/: they follow sections 3 and 4.3 of the specification.      *)

ConditionTypes == {"Price", "Time", "Margin", "Execution", "Volume", "PercentChange"}

\* variants with the contract scope (con_id, exchange)
ContractConditions == {"Price", "PercentChange", "Volume"}

\* variants with the comparison direction (is_more)
OperatorConditions == {"Price", "PercentChange", "Volume", "Margin", "Time"}

\* a freshly created condition of a variant: the tag of its own kind, every
\* other field the default of its type
Condition_default(variant) ==
  CASE variant = "Price" ->
         [variant |-> "Price", cond_type |-> "Price", is_conjunction_connection |-> FALSE,
          is_more |-> FALSE, con_id |-> 0, exchange |-> "", price |-> "0.0",
          trigger_method |-> "Default"]
    [] variant = "Time" ->
         [variant |-> "Time", cond_type |-> "Time", is_conjunction_connection |-> FALSE,
          is_more |-> FALSE, time |-> ""]
    [] variant = "Margin" ->
         [variant |-> "Margin", cond_type |-> "Margin", is_conjunction_connection |-> FALSE,
          is_more |-> FALSE, percent |-> "0.0"]
    [] variant = "Execution" ->
         [variant |-> "Execution", cond_type |-> "Execution",
          is_conjunction_connection |-> FALSE, symbol |-> "", sec_type |-> "",
          exchange |-> ""]
    [] variant = "PercentChange" ->
         [variant |-> "PercentChange", cond_type |-> "PercentChange",
          is_conjunction_connection |-> FALSE, is_more |-> FALSE, con_id |-> 0,
          exchange |-> "", change_percent |-> "0.0"]
    [] variant = "Volume" ->
         [variant |-> "Volume", cond_type |-> "Volume", is_conjunction_connection |-> FALSE,
          is_more |-> FALSE, con_id |-> 0, exchange |-> "", volume |-> 0]

\* create_condition(cond_type): the OrderConditionEnum case of that kind
create_condition(cond_type) == Condition_default(cond_type)

\* the outcome of a call that did not return
Panicked == [status |-> "panic", value |-> [variant |-> "none"]]

\* `.into()` from OrderConditionEnum to the struct `variant`: the outcomes it
\* can have.  A value of that variant is unwrapped.  What the conversion does
\* with a value of another variant is not visible from order.rs: it either
\* aborts or gives a fresh value of the requested variant.
into(condition_enum, variant) ==
  IF condition_enum.variant = variant
  THEN {[status |-> "ok", value |-> condition_enum]}
  ELSE {Panicked, [status |-> "ok", value |-> Condition_default(variant)]}

\* FromPrimitive::from_i32 for TriggerMethod, "None" for an integer that is no
\* member (members as listed at order.rs 250-251)
TriggerMethod_from_i32(n) ==
  CASE n = 0 -> "Default"
    [] n = 1 -> "DoubleBidAsk"
    [] n = 2 -> "Last"
    [] n = 3 -> "DoubleLast"
    [] n = 4 -> "BidAsk"
    [] n = 7 -> "LastOrBidAsk"
    [] n = 8 -> "MidPoint"
    [] OTHER -> "None"

\* Order::price_condition_order (order.rs 1876-1906); the unwrap at 1895
\* aborts the call when trigger_method is no TriggerMethod
price_condition_order(trigger_method, con_id, exchange, price, is_more, is_conjunction) ==
  {IF r.status = "ok" /\ TriggerMethod_from_i32(trigger_method) # "None"
   THEN [status |-> "ok",
         value |-> [r.value EXCEPT !.con_id = con_id,
                                   !.exchange = exchange,
                                   !.is_more = is_more,
                                   !.trigger_method = TriggerMethod_from_i32(trigger_method),
                                   !.price = price,
                                   !.is_conjunction_connection = is_conjunction]]
   ELSE Panicked : r \in into(create_condition("Price"), "Price")}

\* execution_condition_order linking to the next condition by AND whatever
\* is_conjunction is
execution_condition_order_always_and(symbol, sec_type, exchange, is_conjunction) ==
  {IF r.status = "ok"
   THEN [status |-> "ok",
         value |-> [r.value EXCEPT !.symbol = symbol,
                                   !.exchange = exchange,
                                   !.sec_type = sec_type,
                                   !.is_conjunction_connection = TRUE,
                                   !.cond_type = "Execution"]]
   ELSE Panicked : r \in into(create_condition("Execution"), "Execution")}

\* Order::execution_condition_order (order.rs 1908-1927)
execution_condition_order(symbol, sec_type, exchange, is_conjunction) ==
  {IF r.status = "ok"
   THEN [status |-> "ok",
         value |-> [r.value EXCEPT !.symbol = symbol,
                                   !.exchange = exchange,
                                   !.sec_type = sec_type,
                                   !.is_conjunction_connection = is_conjunction,
                                   !.cond_type = "Execution"]]
   ELSE Panicked : r \in into(create_condition("Execution"), "Execution")}

\* margin_condition_order storing the comparison direction inverted
margin_condition_order_inverted(percent, is_more, is_conjunction) ==
  {IF r.status = "ok"
   THEN [status |-> "ok",
         value |-> [r.value EXCEPT !.is_more = ~is_more,
                                   !.percent = percent,
                                   !.is_conjunction_connection = is_conjunction,
                                   !.cond_type = "Margin"]]
   ELSE Panicked : r \in into(create_condition("Margin"), "Margin")}

\* Order::margin_condition_order (order.rs 1929-1950)
margin_condition_order(percent, is_more, is_conjunction) ==
  {IF r.status = "ok"
   THEN [status |-> "ok",
         value |-> [r.value EXCEPT !.is_more = is_more,
                                   !.percent = percent,
                                   !.is_conjunction_connection = is_conjunction,
                                   !.cond_type = "Margin"]]
   ELSE Panicked : r \in into(create_condition("Margin"), "Margin")}

\* Order::percentage_change_condition_order (order.rs 1952-1986); line 1960
\* creates a condition of kind Execution and converts it
percentage_change_condition_order(pct_change, con_id, exchange, is_more, is_conjunction) ==
  {IF r.status = "ok"
   THEN [status |-> "ok",
         value |-> [r.value EXCEPT !.is_more = is_more,
                                   !.change_percent = pct_change,
                                   !.con_id = con_id,
                                   !.exchange = exchange,
                                   !.is_conjunction_connection = is_conjunction,
                                   !.cond_type = "PercentChange"]]
   ELSE Panicked : r \in into(create_condition("Execution"), "PercentChange")}

\* Order::time_condition_order (order.rs 1988-2002)
time_condition_order(time, is_more, is_conjunction) ==
  {IF r.status = "ok"
   THEN [status |-> "ok",
         value |-> [r.value EXCEPT !.is_more = is_more,
                                   !.time = time,
                                   !.is_conjunction_connection = is_conjunction,
                                   !.cond_type = "Time"]]
   ELSE Panicked : r \in into(create_condition("Time"), "Time")}

\* volume_condition_order writing the tag of another builder
volume_condition_order_tagged_execution(con_id, exchange, is_more, volume, is_conjunction) ==
  {IF r.status = "ok"
   THEN [status |-> "ok",
         value |-> [r.value EXCEPT !.con_id = con_id,
                                   !.exchange = exchange,
                                   !.is_more = is_more,
                                   !.volume = volume,
                                   !.is_conjunction_connection = is_conjunction,
                                   !.cond_type = "Execution"]]
   ELSE Panicked : r \in into(create_condition("Volume"), "Volume")}

\* Order::volume_condition_order (order.rs 2004-2033)
volume_condition_order(con_id, exchange, is_more, volume, is_conjunction) ==
  {IF r.status = "ok"
   THEN [status |-> "ok",
         value |-> [r.value EXCEPT !.con_id = con_id,
                                   !.exchange = exchange,
                                   !.is_more = is_more,
                                   !.volume = volume,
                                   !.is_conjunction_connection = is_conjunction,
                                   !.cond_type = "Volume"]]
   ELSE Panicked : r \in into(create_condition("Volume"), "Volume")}

\* the text of the conjunction flag and of the comparison direction in the
\* field list
conjunction_field(is_conjunction_connection) == IF is_conjunction_connection THEN "a" ELSE "o"

is_more_field(is_more) == IF is_more THEN "1" ELSE "0"

\* the fields of the variant itself, after those of the embedded layers
payload_fields(c) ==
  CASE c.variant = "Price" -> <<f64_fmt_display(c.price)>>
    [] c.variant = "Time" -> <<c.time>>
    [] c.variant = "Margin" -> <<f64_fmt_display(c.percent)>>
    [] c.variant = "Execution" -> <<c.symbol, c.sec_type, c.exchange>>
    [] c.variant = "PercentChange" -> <<f64_fmt_display(c.change_percent)>>
    [] c.variant = "Volume" -> <<ToString(c.volume)>>

\* operator_condition.is_more first, contract scope after it
make_fields_operator_first(c) ==
  <<c.cond_type, conjunction_field(c.is_conjunction_connection)>>
    \o (IF c.variant \in OperatorConditions THEN <<is_more_field(c.is_more)>> ELSE <<>>)
    \o (IF c.variant \in ContractConditions THEN <<ToString(c.con_id), c.exchange>> ELSE <<>>)
    \o payload_fields(c)

\* Condition::make_fields (called at order.rs 2100): tag, conjunction flag,
\* contract scope, comparison direction, payload
make_fields(c) ==
  <<c.cond_type, conjunction_field(c.is_conjunction_connection)>>
    \o (IF c.variant \in ContractConditions THEN <<ToString(c.con_id), c.exchange>> ELSE <<>>)
    \o (IF c.variant \in OperatorConditions THEN <<is_more_field(c.is_more)>> ELSE <<>>)
    \o payload_fields(c)

\* the reader of a field list: conjunction flag and comparison direction
decode_conjunction(field) == field = "a"

decode_comparison(field) == IF field = "1" THEN "above" ELSE "below"

comparison_field(variant, fields) ==
  IF variant \in ContractConditions THEN fields[5] ELSE fields[3]

Call_price_condition_order ==
  /\ condition.status = "none"
  /\ \E trigger_method \in {0, 2, 5, 8}, con_id \in {0, 8314}, exchange \in {"SMART", ""},
        price \in Prices, is_more \in BOOLEAN, is_conjunction \in BOOLEAN :
       \E r \in price_condition_order(trigger_method, con_id, exchange, price, is_more,
                                      is_conjunction) :
         condition' = r @@ [fn |-> "price_condition_order",
                            args |-> [trigger_method |-> trigger_method, con_id |-> con_id,
                                      exchange |-> exchange, price |-> price,
                                      is_more |-> is_more,
                                      is_conjunction |-> is_conjunction]]
  /\ UNCHANGED <<lateVars, coreVars, display, attach, combo, conditions, decoded>>

Call_execution_condition_order ==
  /\ condition.status = "none"
  /\ \E symbol \in {"IBM", ""}, sec_type \in {"STK", "OPT"}, exchange \in {"SMART", ""},
        is_conjunction \in BOOLEAN :
       \E r \in execution_condition_order(symbol, sec_type, exchange, is_conjunction) :
         condition' = r @@ [fn |-> "execution_condition_order",
                            args |-> [symbol |-> symbol, sec_type |-> sec_type,
                                      exchange |-> exchange,
                                      is_conjunction |-> is_conjunction]]
  /\ UNCHANGED <<lateVars, coreVars, display, attach, combo, conditions, decoded>>

Call_margin_condition_order ==
  /\ condition.status = "none"
  /\ \E percent \in Prices, is_more \in BOOLEAN, is_conjunction \in BOOLEAN :
       \E r \in margin_condition_order(percent, is_more, is_conjunction) :
         condition' = r @@ [fn |-> "margin_condition_order",
                            args |-> [percent |-> percent, is_more |-> is_more,
                                      is_conjunction |-> is_conjunction]]
  /\ UNCHANGED <<lateVars, coreVars, display, attach, combo, conditions, decoded>>

Call_percentage_change_condition_order ==
  /\ condition.status = "none"
  /\ \E pct_change \in Prices, con_id \in {0, 8314}, exchange \in {"SMART", ""},
        is_more \in BOOLEAN, is_conjunction \in BOOLEAN :
       \E r \in percentage_change_condition_order(pct_change, con_id, exchange, is_more,
                                                  is_conjunction) :
         condition' = r @@ [fn |-> "percentage_change_condition_order",
                            args |-> [pct_change |-> pct_change, con_id |-> con_id,
                                      exchange |-> exchange, is_more |-> is_more,
                                      is_conjunction |-> is_conjunction]]
  /\ UNCHANGED <<lateVars, coreVars, display, attach, combo, conditions, decoded>>

Call_time_condition_order ==
  /\ condition.status = "none"
  /\ \E time \in {"20261104 09:30:00", ""}, is_more \in BOOLEAN, is_conjunction \in BOOLEAN :
       \E r \in time_condition_order(time, is_more, is_conjunction) :
         condition' = r @@ [fn |-> "time_condition_order",
                            args |-> [time |-> time, is_more |-> is_more,
                                      is_conjunction |-> is_conjunction]]
  /\ UNCHANGED <<lateVars, coreVars, display, attach, combo, conditions, decoded>>

Call_volume_condition_order ==
  /\ condition.status = "none"
  /\ \E con_id \in {0, 8314}, exchange \in {"SMART", ""}, is_more \in BOOLEAN,
        volume \in {0, 1000, -1}, is_conjunction \in BOOLEAN :
       \E r \in volume_condition_order(con_id, exchange, is_more, volume, is_conjunction) :
         condition' = r @@ [fn |-> "volume_condition_order",
                            args |-> [con_id |-> con_id, exchange |-> exchange,
                                      is_more |-> is_more, volume |-> volume,
                                      is_conjunction |-> is_conjunction]]
  /\ UNCHANGED <<lateVars, coreVars, display, attach, combo, conditions, decoded>>

----------------------------------------------------------------------------
(* The condition chain of an Order: Order.conditions (order.rs 412) *)

\* longest chain the caller attaches
MaxConditions == 3

\* the outcomes of the builder the caller picks for the next condition
built_condition(kind, is_conjunction) ==
  CASE kind = "Price" -> price_condition_order(2, 8314, "SMART", "50.5", TRUE, is_conjunction)
    [] kind = "Time" -> time_condition_order("20261104 09:30:00", TRUE, is_conjunction)
    [] kind = "Margin" -> margin_condition_order("50.0", FALSE, is_conjunction)
    [] kind = "Execution" -> execution_condition_order("IBM", "STK", "SMART", is_conjunction)
    [] kind = "PercentChange" ->
         percentage_change_condition_order("1.5", 8314, "SMART", TRUE, is_conjunction)
    [] kind = "Volume" -> volume_condition_order(8314, "SMART", FALSE, 1000, is_conjunction)

\* order.conditions.push(..) of a condition a builder returned; is_conjunction
\* keeps the argument the caller gave the builder
Caller_push_condition ==
  /\ Len(conditions) < MaxConditions
  /\ \E kind \in ConditionTypes, is_conjunction \in BOOLEAN :
       \E r \in built_condition(kind, is_conjunction) :
         /\ r.status = "ok"
         /\ conditions' = Append(conditions, [condition |-> r.value,
                                              is_conjunction |-> is_conjunction])
  /\ UNCHANGED <<lateVars, coreVars, display, attach, combo, condition, decoded>>

\* The venue's value of the first n conditions of a chain, holds[i] telling
\* whether the i-th condition is met: each condition is combined with the
\* running value by the connector of the condition before it (order.rs 1898:
\* "AND | OR next condition"), from the left.
RECURSIVE trigger_value(_, _, _)
trigger_value(chain, holds, n) ==
  IF n = 1 THEN holds[1]
  ELSE IF chain[n - 1].condition.is_conjunction_connection
       THEN trigger_value(chain, holds, n - 1) /\ holds[n]
       ELSE trigger_value(chain, holds, n - 1) \/ holds[n]

trigger_expression(chain, holds) == trigger_value(chain, holds, Len(chain))

----------------------------------------------------------------------------
(* impl Display for Order (order.rs 2048-2107) *)

\* "{}" of a bool
bool_fmt_display(b) == IF b THEN "true" ELSE "false"

\* [String].join(sep)
RECURSIVE join(_, _)
join(strings, sep) ==
  IF Len(strings) = 0 THEN ""
  ELSE IF Len(strings) = 1 THEN strings[1]
  ELSE strings[1] \o sep \o join(Tail(strings), sep)

\* Iterator<Item = String>::collect::<String>()
RECURSIVE concat(_)
concat(strings) == IF Len(strings) = 0 THEN "" ELSE strings[1] \o concat(Tail(strings))

\* the thirteen arguments of the write! with "|" between the conditions
\* instead of after each
Order_fmt_args_cond_separated(o) ==
  << ToString(o.order_id),
     ToString(o.client_id),
     ToString(o.perm_id),
     o.order_type,
     o.action,
     f64_fmt_display(o.total_quantity),
     IF o.lmt_price = UNSET_DOUBLE
     THEN f64_fmt_upper_exp(o.lmt_price)
     ELSE f64_fmt_debug(o.lmt_price),
     o.tif,
     bool_fmt_display(o.what_if),
     o.algo_strategy,
     join([i \in 1..Len(o.algo_params) |->
             o.algo_params[i].tag \o " = " \o o.algo_params[i].value], ","),
     join([i \in 1..Len(o.order_combo_legs) |->
             f64_fmt_display(o.order_combo_legs[i].price)], ","),
     join([i \in 1..Len(o.conditions) |-> join(make_fields(o.conditions[i]), ",")], "|") >>

\* the thirteen arguments of the write! with lmt_price always formatted by "{:?}"
Order_fmt_args_debug_only(o) ==
  << ToString(o.order_id),
     ToString(o.client_id),
     ToString(o.perm_id),
     o.order_type,
     o.action,
     f64_fmt_display(o.total_quantity),
     f64_fmt_debug(o.lmt_price),
     o.tif,
     bool_fmt_display(o.what_if),
     o.algo_strategy,
     join([i \in 1..Len(o.algo_params) |->
             o.algo_params[i].tag \o " = " \o o.algo_params[i].value], ","),
     join([i \in 1..Len(o.order_combo_legs) |->
             f64_fmt_display(o.order_combo_legs[i].price)], ","),
     concat([i \in 1..Len(o.conditions) |->
               join(make_fields(o.conditions[i]), ",") \o "|"]) >>

\* the thirteen arguments of the write! (order.rs 2065-2104), formatted
Order_fmt_args(o) ==
  << ToString(o.order_id),
     ToString(o.client_id),
     ToString(o.perm_id),
     o.order_type,
     o.action,
     f64_fmt_display(o.total_quantity),
     IF o.lmt_price = UNSET_DOUBLE
     THEN f64_fmt_upper_exp(o.lmt_price)
     ELSE f64_fmt_debug(o.lmt_price),
     o.tif,
     bool_fmt_display(o.what_if),
     o.algo_strategy,
     join([i \in 1..Len(o.algo_params) |->
             o.algo_params[i].tag \o " = " \o o.algo_params[i].value], ","),
     join([i \in 1..Len(o.order_combo_legs) |->
             f64_fmt_display(o.order_combo_legs[i].price)], ","),
     concat([i \in 1..Len(o.conditions) |->
               join(make_fields(o.conditions[i]), ",") \o "|"]) >>

\* the format string of the write! (order.rs 2052-2064) filled with arguments
Order_fmt_template(a) ==
  "order_id = " \o a[1] \o "\n"
    \o "client_id = " \o a[2] \o "\n"
    \o "perm_id = " \o a[3] \o "\n"
    \o "order_type = " \o a[4] \o "\n"
    \o "action = " \o a[5] \o "\n"
    \o "total_quantity = " \o a[6] \o "\n"
    \o "lmt_price = " \o a[7] \o "\n"
    \o "tif = " \o a[8] \o "\n"
    \o "what_if = " \o a[9] \o "\n"
    \o "algo_strategy = " \o a[10] \o "\n"
    \o "algo_params = (" \o a[11] \o ")\n"
    \o "CMB = (" \o a[12] \o ")\n"
    \o "COND = (" \o a[13] \o ")"

\* <Order as Display>::fmt
Order_fmt(o) == Order_fmt_template(Order_fmt_args(o))

\* the orders the caller formats: defaults, limit orders, an order with algo
\* parameters, a combo order with legs, an order with conditions
DisplayOrders ==
  {Order_default}
    \cup {limit_order(account, action, quantity, limit_price) :
            account \in Accounts, action \in Actions, quantity \in Quantities,
            limit_price \in Prices}
    \cup {[market_order("U123", "BUY", "100.0") EXCEPT
             !.algo_strategy = "Vwap",
             !.algo_params = <<TagValue_new("maxPctVol", "0.2"),
                               TagValue_new("noTakeLiq", "1")>>]}
    \cup {limit_for_combo_with_leg_prices_order("U123", "SELL", "100.0",
                                                <<"1.5", "-0.25", "3.0">>, TRUE)}
    \cup {[limit_order("U123", "BUY", "100.0", "50.5") EXCEPT
             !.conditions =
               <<(CHOOSE r \in price_condition_order(2, 8314, "SMART", "50.5", TRUE, FALSE) :
                    r.status = "ok").value,
                 (CHOOSE r \in time_condition_order("20261104 09:30:00", FALSE, TRUE) :
                    r.status = "ok").value>>]}

\* The caller formats an order twice with "{}": once with the f64 field
\* `field` holding UNSET_DOUBLE, once with it holding 0.0.
Call_fmt ==
  /\ ~display.called
  /\ \E o \in DisplayOrders, field \in F64Fields :
       display' = [called |-> TRUE, order |-> o, field |-> field,
                   unset_args |-> Order_fmt_args([o EXCEPT ![field] = UNSET_DOUBLE]),
                   unset_form |-> Order_fmt([o EXCEPT ![field] = UNSET_DOUBLE]),
                   zero_args |-> Order_fmt_args([o EXCEPT ![field] = "0.0"]),
                   zero_form |-> Order_fmt([o EXCEPT ![field] = "0.0"])]
  /\ UNCHANGED <<lateVars, coreVars, attach, combo, condVars, decoded>>

----------------------------------------------------------------------------
(* Persistence: #[derive(Serialize, Deserialize)] #[serde(default)] on Order *)
(* (order.rs 214-216).  A persisted record is a map from field names to     *)
(* values; a field that was dropped from it is absent from its domain.      *)

\* orders the caller has persisted, their fields away from the defaults
PersistedOrders ==
  {[stop_limit_order("U123", "BUY", "100.0", "50.5", "50.0") EXCEPT
      !.order_id = 42, !.transmit = FALSE, !.open_close = "C", !.exempt_code = 0,
      !.origin = "Firm", !.e_trade_only = FALSE, !.display_size = 10,
      !.discretionary_amt = "1.5", !.tif = "GTC"],
   [limit_for_combo_with_leg_prices_order("", "SELL", "-1.0", <<"1.5", "3.0">>, TRUE) EXCEPT
      !.transmit = FALSE, !.firm_quote_only = FALSE, !.origin = "Unknown",
      !.min_qty = 1, !.hidden = TRUE]}

\* fields of which any subset goes missing from a record
DroppedFields ==
  {"transmit", "open_close", "exempt_code", "origin", "e_trade_only", "lmt_price",
   "total_quantity", "display_size", "discretionary_amt", "order_combo_legs"}

\* the sets of absent fields: every subset of DroppedFields, every field but
\* those, and every field (the empty record)
AbsentFieldSets ==
  (SUBSET DroppedFields) \cup {OrderFields \ DroppedFields, OrderFields}

\* Serialize for Order with the fields of `absent` removed from the record
persisted_record(o, absent) == [f \in OrderFields \ absent |-> o[f]]

\* decoding that fills an absent field with the default of the field's type
Order_deserialize_fieldwise(record) ==
  [status |-> "ok",
   value |-> [f \in OrderFields |->
                IF f \in DOMAIN record THEN record[f] ELSE Order_fieldwise_default[f]]]

\* the fields of the nested structs
SoftDollarTierFields == {"name", "val", "display_name"}
OrderComboLegFields == {"price"}

\* Deserialize for SoftDollarTier (order.rs 49-54): the struct derives
\* Deserialize without #[serde(default)], so every field is required and a
\* record from which one is absent is a decode error ("missing field")
SoftDollarTier_deserialize(record) ==
  IF SoftDollarTierFields \subseteq DOMAIN record
    THEN [status |-> "ok", value |-> [f \in SoftDollarTierFields |-> record[f]]]
    ELSE [status |-> "err", value |-> <<>>]

\* OrderComboLeg::default (order.rs 196-200): the derived Default, price 0.0
OrderComboLeg_default == [price |-> "0.0"]

\* Deserialize for OrderComboLeg under #[serde(default)] (order.rs 196-200)
OrderComboLeg_deserialize(record) ==
  [status |-> "ok",
   value |-> [f \in OrderComboLegFields |->
                IF f \in DOMAIN record THEN record[f] ELSE OrderComboLeg_default[f]]]

\* Deserialize for Order under the container attribute #[serde(default)]:
\* a field absent from the record takes its value from Order::default(); a
\* field that is present is decoded by its own type, and an error of the
\* nested SoftDollarTier is the error of the whole record
Order_deserialize(record) ==
  LET tier == IF "soft_dollar_tier" \in DOMAIN record
                THEN SoftDollarTier_deserialize(record.soft_dollar_tier)
                ELSE [status |-> "ok", value |-> Order_default.soft_dollar_tier]
      legs == IF "order_combo_legs" \in DOMAIN record
                THEN [i \in 1..Len(record.order_combo_legs) |->
                        OrderComboLeg_deserialize(record.order_combo_legs[i]).value]
                ELSE Order_default.order_combo_legs
  IN IF tier.status # "ok"
       THEN [status |-> "err", value |-> <<>>]
       ELSE [status |-> "ok",
             value |-> [f \in OrderFields |->
                          IF f = "soft_dollar_tier" THEN tier.value
                          ELSE IF f = "order_combo_legs" THEN legs
                          ELSE IF f \in DOMAIN record THEN record[f]
                          ELSE Order_default[f]]]

\* the caller decodes a persisted record from which some fields are absent
Call_deserialize ==
  /\ ~decoded.called
  /\ \E o \in PersistedOrders, absent \in AbsentFieldSets :
       decoded' = Order_deserialize(persisted_record(o, absent))
                    @@ [called |-> TRUE, source |-> o, absent |-> absent]
  /\ UNCHANGED <<lateVars, coreVars, display, attach, combo, condVars>>

----------------------------------------------------------------------------
(* Persistence of the nested structs: SoftDollarTier (order.rs 49-54) and  *)
(* OrderComboLeg (order.rs 196-200), decoded alone or inside an Order.      *)

\* tiers and legs the caller has persisted
PersistedTiers ==
  {SoftDollarTier_new("Tier1", "1", "Tier one"), SoftDollarTier_new("", "2", "x"),
   SoftDollarTier_new("T", "", "")}
PersistedLegs == {OrderComboLeg_new(p) : p \in {"1.5", "-0.25", "0.0"}}

\* a record of a struct with the fields of `absent` removed
part_record(v, absent) == [f \in (DOMAIN v) \ absent |-> v[f]]

\* the caller decodes a SoftDollarTier record from which fields are absent
Call_deserialize_SoftDollarTier ==
  /\ ~decoded_part.called
  /\ \E v \in PersistedTiers, absent \in SUBSET SoftDollarTierFields :
       decoded_part' = SoftDollarTier_deserialize(part_record(v, absent))
                         @@ [called |-> TRUE, type |-> "SoftDollarTier",
                             source |-> v, absent |-> absent]
  /\ UNCHANGED <<coreVars, display, attach, combo, condVars, decoded,
                 special, order_state, calls, rendered>>

\* the caller decodes an OrderComboLeg record from which fields are absent
Call_deserialize_OrderComboLeg ==
  /\ ~decoded_part.called
  /\ \E v \in PersistedLegs, absent \in SUBSET OrderComboLegFields :
       decoded_part' = OrderComboLeg_deserialize(part_record(v, absent))
                         @@ [called |-> TRUE, type |-> "OrderComboLeg",
                             source |-> v, absent |-> absent]
  /\ UNCHANGED <<coreVars, display, attach, combo, condVars, decoded,
                 special, order_state, calls, rendered>>

\* the caller decodes an Order record whose nested soft_dollar_tier record
\* lacks the fields of `absent`
Call_deserialize_nested ==
  /\ ~decoded_part.called
  /\ \E o \in PersistedOrders, v \in PersistedTiers,
        absent \in SUBSET SoftDollarTierFields :
       LET record == [persisted_record(o, {}) EXCEPT
                        !.soft_dollar_tier = part_record(v, absent)]
       IN decoded_part' = Order_deserialize(record)
                            @@ [called |-> TRUE, type |-> "Order",
                                source |-> v, absent |-> absent]
  /\ UNCHANGED <<coreVars, display, attach, combo, condVars, decoded,
                 special, order_state, calls, rendered>>

----------------------------------------------------------------------------
(* The remaining single-order presets: volatility_order, market_fhedge_order, *)
(* pegged_to_benchmark_order (order.rs 1710-1780) and what_if_limit_order      *)
(* (order.rs 2035-2045).                                                      *)

\* <String as FromStr>::from_str (order.rs 1770: reference_exchange.parse()):
\* its error type is Infallible, every string parses to itself
String_from_str(s) == [status |-> "ok", value |-> s]

\* volatility_order whose order type follows the kind of volatility
volatility_order_typed(account, action, quantity, volatility_percent, volatility_type) ==
  [Order_default EXCEPT
    !.account = account,
    !.action = action,
    !.order_type = IF volatility_type = 2 THEN "VOL" ELSE "LMT",
    !.total_quantity = quantity,
    !.volatility = volatility_percent,
    !.volatility_type = volatility_type]

\* Order::volatility_order (order.rs 1710-1727)
volatility_order(account, action, quantity, volatility_percent, volatility_type) ==
  [Order_default EXCEPT
    !.account = account,
    !.action = action,
    !.order_type = "VOL",
    !.total_quantity = quantity,
    !.volatility = volatility_percent,
    !.volatility_type = volatility_type]

\* Order::market_fhedge_order (order.rs 1729-1737)
market_fhedge_order(account, parent_order_id, action) ==
  [market_order(account, action, "0.0") EXCEPT
    !.parent_id = parent_order_id,
    !.hedge_type = "F"]

\* Order::pegged_to_benchmark_order (order.rs 1739-1780); the unwrap at 1770
\* is of a parse that cannot fail
pegged_to_benchmark_order(account, action, quantity, starting_price, pegged_change_amount_decrease, pegged_change_amount, reference_change_amount, reference_con_id, reference_exchange, stock_reference_price, reference_contract_lower_range, reference_contract_upper_range) ==
  IF String_from_str(reference_exchange).status = "ok"
    THEN [status |-> "ok",
          order |-> [Order_default EXCEPT
                      !.order_type = "PEG BENCH",
                      !.account = account,
                      !.action = action,
                      !.total_quantity = quantity,
                      !.starting_price = starting_price,
                      !.is_pegged_change_amount_decrease = pegged_change_amount_decrease,
                      !.pegged_change_amount = pegged_change_amount,
                      !.reference_change_amount = reference_change_amount,
                      !.reference_contract_id = reference_con_id,
                      !.reference_exchange_id = String_from_str(reference_exchange).value,
                      !.stock_ref_price = stock_reference_price,
                      !.stock_range_lower = reference_contract_lower_range,
                      !.stock_range_upper = reference_contract_upper_range]]
    ELSE [status |-> "panic", order |-> Order_default]

\* Order::what_if_limit_order (order.rs 2035-2045)
what_if_limit_order(account, action, quantity, limit_price) ==
  [limit_order(account, action, quantity, limit_price) EXCEPT !.what_if = TRUE]

\* reference_exchange: &str, an exchange code and strings that are none
ReferenceExchanges == {"ISLAND", "", "no such exchange"}

Call_volatility_order ==
  /\ special.status = "none"
  /\ \E account \in Accounts, action \in Actions, quantity \in Quantities,
        volatility_percent \in {"1.5", "-1.0"}, volatility_type \in {1, 2, 0} :
       special' = [status |-> "ok", fn |-> "volatility_order",
                   args |-> [account |-> account, action |-> action,
                             quantity |-> quantity,
                             volatility_percent |-> volatility_percent,
                             volatility_type |-> volatility_type],
                   order |-> volatility_order(account, action, quantity,
                                              volatility_percent, volatility_type)]
  /\ UNCHANGED <<coreVars, display, attach, combo, condVars, decoded,
                 decoded_part, order_state, calls, rendered>>

Call_market_fhedge_order ==
  /\ special.status = "none"
  /\ \E account \in Accounts, parent_order_id \in ParentOrderIds, action \in Actions :
       special' = [status |-> "ok", fn |-> "market_fhedge_order",
                   args |-> [account |-> account, action |-> action,
                             parent_order_id |-> parent_order_id],
                   order |-> market_fhedge_order(account, parent_order_id, action)]
  /\ UNCHANGED <<coreVars, display, attach, combo, condVars, decoded,
                 decoded_part, order_state, calls, rendered>>

Call_pegged_to_benchmark_order ==
  /\ special.status = "none"
  /\ \E account \in Accounts, action \in Actions, quantity \in Quantities,
        pegged_change_amount_decrease \in BOOLEAN, reference_con_id \in {0, 8314},
        reference_exchange \in ReferenceExchanges,
        reference_contract_lower_range \in {"50.0", "100.0"} :
       special' = pegged_to_benchmark_order(account, action, quantity, "50.5",
                    pegged_change_amount_decrease, "1.5", "-0.25", reference_con_id,
                    reference_exchange, "50.0", reference_contract_lower_range, "50.5")
                  @@ [fn |-> "pegged_to_benchmark_order",
                      args |-> [account |-> account, action |-> action,
                                quantity |-> quantity,
                                pegged_change_amount_decrease |-> pegged_change_amount_decrease,
                                reference_con_id |-> reference_con_id,
                                reference_exchange |-> reference_exchange,
                                reference_contract_lower_range |->
                                  reference_contract_lower_range]]
  /\ UNCHANGED <<coreVars, display, attach, combo, condVars, decoded,
                 decoded_part, order_state, calls, rendered>>

Call_what_if_limit_order ==
  /\ special.status = "none"
  /\ \E account \in Accounts, action \in Actions, quantity \in Quantities,
        limit_price \in Prices :
       special' = [status |-> "ok", fn |-> "what_if_limit_order",
                   args |-> [account |-> account, action |-> action,
                             quantity |-> quantity, limit_price |-> limit_price],
                   order |-> what_if_limit_order(account, action, quantity, limit_price)]
  /\ UNCHANGED <<coreVars, display, attach, combo, condVars, decoded,
                 decoded_part, order_state, calls, rendered>>

----------------------------------------------------------------------------
(* OrderState (order.rs 78-194): its derived Default, its decoding under   *)
(* #[serde(default)] and its Display.                                      *)

\* the fields of OrderState in the order of the struct and of the Display
OrderStateFieldOrder ==
  <<"status", "init_margin_before", "maint_margin_before", "equity_with_loan_before",
    "init_margin_change", "maint_margin_change", "equity_with_loan_change",
    "init_margin_after", "maint_margin_after", "equity_with_loan_after",
    "commission", "min_commission", "max_commission", "commission_currency",
    "warning_text", "completed_time", "completed_status">>

OrderStateFields == {OrderStateFieldOrder[i] : i \in 1..Len(OrderStateFieldOrder)}

\* the f64 fields of OrderState (order.rs 91-93)
CommissionFields == {"commission", "min_commission", "max_commission"}

\* #[derive(Default)] for OrderState (order.rs 78): String::default() is the
\* empty string and f64::default() is 0.0
OrderState_default ==
  [f \in OrderStateFields |-> IF f \in CommissionFields THEN "0.0" ELSE ""]

\* OrderState::new (order.rs 101-140): every field is the argument of its name
OrderState_new(fields) == [f \in OrderStateFields |-> fields[f]]

\* Deserialize for OrderState under #[serde(default)] (order.rs 78-80)
OrderState_deserialize(record) ==
  [status |-> "ok",
   value |-> [f \in OrderStateFields |->
                IF f \in DOMAIN record THEN record[f] ELSE OrderState_default[f]]]

\* the seventeen arguments of the write! (order.rs 163-191)
OrderState_fmt_args(s) ==
  [i \in 1..Len(OrderStateFieldOrder) |->
     LET f == OrderStateFieldOrder[i]
     IN IF f \in CommissionFields
          THEN IF s[f] = UNSET_DOUBLE THEN f64_fmt_upper_exp(s[f]) ELSE f64_fmt_debug(s[f])
          ELSE s[f]]

\* <OrderState as Display>::fmt (order.rs 142-194): "name: value" lines
OrderState_fmt(s) ==
  join([i \in 1..Len(OrderStateFieldOrder) |->
          OrderStateFieldOrder[i] \o ": " \o OrderState_fmt_args(s)[i]], "\n")

\* order states the caller was given: one with commissions, one without
GivenOrderStates ==
  {[f \in OrderStateFields |->
      CASE f = "status" -> "Filled"
        [] f = "commission" -> "1.5"
        [] f = "min_commission" -> UNSET_DOUBLE
        [] f = "max_commission" -> "3.0"
        [] f = "commission_currency" -> "USD"
        [] OTHER -> "100.0"],
   [f \in OrderStateFields |->
      CASE f = "status" -> "PreSubmitted"
        [] f \in CommissionFields -> UNSET_DOUBLE
        [] OTHER -> ""]}

\* fields of which any subset goes missing from a persisted OrderState
DroppedOrderStateFields ==
  CommissionFields \cup {"status", "commission_currency", "warning_text"}

\* the value the call produced and its rendering
Rendered_OrderState(how, absent, s) ==
  [called |-> TRUE, how |-> how, absent |-> absent, value |-> s,
   fmt_args |-> OrderState_fmt_args(s), text |-> OrderState_fmt(s)]

Call_OrderState_default ==
  /\ ~order_state.called
  /\ order_state' = Rendered_OrderState("default", OrderStateFields, OrderState_default)
  /\ UNCHANGED <<coreVars, display, attach, combo, condVars, decoded,
                 decoded_part, special, calls, rendered>>

Call_OrderState_new ==
  /\ ~order_state.called
  /\ \E s \in GivenOrderStates :
       order_state' = Rendered_OrderState("new", {}, OrderState_new(s))
  /\ UNCHANGED <<coreVars, display, attach, combo, condVars, decoded,
                 decoded_part, special, calls, rendered>>

\* the caller decodes a persisted OrderState from which fields are absent
Call_OrderState_deserialize ==
  /\ ~order_state.called
  /\ \E s \in GivenOrderStates, absent \in SUBSET DroppedOrderStateFields :
       order_state' = Rendered_OrderState("deserialize", absent,
                        OrderState_deserialize(part_record(s, absent)).value)
  /\ UNCHANGED <<coreVars, display, attach, combo, condVars, decoded,
                 decoded_part, special, calls, rendered>>

----------------------------------------------------------------------------
(* Calls made by several threads.  The presets and builders are associated *)
(* functions without a receiver; order.rs declares no static, no            *)
(* thread_local and no interior mutability, so a call reads its arguments   *)
(* and its own locals only.  A call is two steps, so that calls of          *)
(* different threads overlap: the thread enters the function with its       *)
(* arguments, and later the function returns.                               *)

Threads == {1, 2}

\* calls in the log at most
MaxCalls == 3

\* the calls a thread may make
Requests ==
  {[fn |-> "limit_order", args |-> <<"U123", "BUY", "100.0", "50.5">>],
   [fn |-> "limit_order", args |-> <<"U123", "SELL", "-1.0", "50.5">>],
   [fn |-> "market_order", args |-> <<"", "BUY", "100.0">>],
   [fn |-> "bracket_order", args |-> <<42, "U123", "BUY", "100.0", "50.5", "50.0", "50.5">>],
   [fn |-> "price_condition_order", args |-> <<2, 8314, "SMART", "50.5", TRUE, FALSE>>]}

\* the values the call of a request can return
outcomes(request) ==
  LET a == request.args
  IN CASE request.fn = "limit_order" ->
            {[status |-> "ok", value |-> limit_order(a[1], a[2], a[3], a[4])]}
       [] request.fn = "market_order" ->
            {[status |-> "ok", value |-> market_order(a[1], a[2], a[3])]}
       [] request.fn = "bracket_order" ->
            {[status |-> bracket_order(a[1], a[2], a[3], a[4], a[5], a[6], a[7]).status,
              value |-> bracket_order(a[1], a[2], a[3], a[4], a[5], a[6], a[7]).orders]}
       [] request.fn = "price_condition_order" ->
            price_condition_order(a[1], a[2], a[3], a[4], a[5], a[6])

\* a thread that is in no call enters a preset or builder with its arguments
Thread_call(t) ==
  /\ ~calls.running[t].busy
  /\ Len(calls.log) + Cardinality({u \in Threads : calls.running[u].busy}) < MaxCalls
  /\ \E request \in Requests :
       calls' = [calls EXCEPT !.running[t] = [busy |-> TRUE, request |-> request]]
  /\ UNCHANGED <<coreVars, display, attach, combo, condVars, decoded,
                 decoded_part, special, order_state, rendered>>

\* the function a thread is in returns
Thread_return(t) ==
  /\ calls.running[t].busy
  /\ \E r \in outcomes(calls.running[t].request) :
       calls' = [log |-> Append(calls.log,
                                [thread |-> t, request |-> calls.running[t].request,
                                 entered_at |-> Len(calls.log), ret |-> r]),
                 running |-> [calls.running EXCEPT
                                ![t] = [busy |-> FALSE, request |-> <<>>]]]
  /\ UNCHANGED <<coreVars, display, attach, combo, condVars, decoded,
                 decoded_part, special, order_state, rendered>>

----------------------------------------------------------------------------
(* A bracket whose children are put into one OCA group: bracket_order       *)
(* (order.rs 1291-1340) followed by one_cancels_all_order (order.rs 1687-1692) *)

\* the caller puts the take-profit and the stop-loss of the bracket it was
\* returned into the Vec it is going to pass
Caller_collect_children ==
  /\ bracket.status = "ok"
  /\ ~oca.called
  /\ caller_orders = <<>>
  /\ caller_orders' = <<bracket.orders[2], bracket.orders[3]>>
  /\ UNCHANGED <<extVars, overflow_checks, caller_owns, oca, presetVars, bracketVars>>

----------------------------------------------------------------------------
(* Display for an Order that carries conditions (order.rs 2097-2104): each  *)
(* condition's make_fields() is unwrapped, so a failing make_fields aborts   *)
(* the formatting.                                                           *)

\* Condition::make_fields as the Result it returns: the field list of section
\* 4.3 of the specification, for every variant
make_fields_result(c) == [status |-> "ok", value |-> make_fields(c)]

\* <Order as Display>::fmt with the unwrap of order.rs 2100: the text, its
\* COND argument, or the abort of the unwrap
Order_fmt_result(o) ==
  IF \E i \in 1..Len(o.conditions) : make_fields_result(o.conditions[i]).status # "ok"
    THEN [status |-> "panic", cond |-> "", text |-> ""]
    ELSE [status |-> "ok", cond |-> Order_fmt_args(o)[13], text |-> Order_fmt(o)]

\* the caller formats an order to which it has attached its chain of conditions
Call_fmt_conditions ==
  /\ ~rendered.called
  /\ LET o == [limit_order("U123", "BUY", "100.0", "50.5") EXCEPT
                 !.conditions = [i \in 1..Len(conditions) |-> conditions[i].condition]]
     IN rendered' = Order_fmt_result(o) @@ [called |-> TRUE, order |-> o]
  /\ UNCHANGED <<coreVars, display, attach, combo, condVars, decoded,
                 decoded_part, special, order_state, calls>>

----------------------------------------------------------------------------
(* Specifications *)

Init ==
  /\ overflow_checks \in BOOLEAN
  /\ call = "none"
  /\ args = <<>>
  /\ ret = Order_default
  /\ bracket = [status |-> "none", orders |-> <<>>, args |-> <<>>]
  /\ submitted = 0
  /\ held = {}
  /\ active = {}
  /\ caller_orders = <<>>
  /\ caller_owns = TRUE
  /\ oca = [called |-> FALSE, oca_group |-> "", oca_type |-> 0,
            oca_orders |-> <<>>, dropped |-> <<>>]
  /\ display = [called |-> FALSE, order |-> Order_default, field |-> "",
                unset_args |-> <<>>, unset_form |-> "", zero_args |-> <<>>,
                zero_form |-> ""]
  /\ attach = [called |-> FALSE, fn |-> "none", parent |-> Order_default, args |-> <<>>,
               order |-> Order_default]
  /\ combo = [called |-> FALSE, fn |-> "none", args |-> [non_guaranteed |-> FALSE],
              order |-> Order_default]
  /\ condition = [status |-> "none", fn |-> "none", args |-> <<>>,
                  value |-> [variant |-> "none"]]
  /\ conditions = <<>>
  /\ decoded = [called |-> FALSE, source |-> Order_default, absent |-> {},
                status |-> "none", value |-> Order_default]
  /\ decoded_part = [called |-> FALSE, type |-> "none", source |-> <<>>,
                     absent |-> {}, status |-> "none", value |-> <<>>]
  /\ special = [status |-> "none", fn |-> "none", args |-> <<>>, order |-> Order_default]
  /\ order_state = [called |-> FALSE, how |-> "none", absent |-> {},
                    value |-> <<>>, fmt_args |-> <<>>, text |-> ""]
  /\ calls = [log |-> <<>>,
              running |-> [t \in Threads |-> [busy |-> FALSE, request |-> <<>>]]]
  /\ rendered = [called |-> FALSE, status |-> "none", order |-> Order_default,
                 cond |-> "", text |-> ""]

\* Order::default() called directly
Call_default ==
  /\ call = "none"
  /\ call' = "default"
  /\ args' = <<>>
  /\ ret' = Order_default
  /\ UNCHANGED <<extVars, overflow_checks, bracketVars, ocaVars>>

NextPreset ==
  \/ Call_default
  \/ Call_at_auction_order
  \/ Call_discretionary_order
  \/ Call_market_order
  \/ Call_market_if_touched_order_order
  \/ Call_market_on_close_order
  \/ Call_market_on_open_order
  \/ Call_midpoint_match_order
  \/ Call_midprice_order
  \/ Call_pegged_to_market_order
  \/ Call_pegged_to_stock_order
  \/ Call_relative_pegged_to_primary_order
  \/ Call_sweep_to_fill_order
  \/ Call_auction_limit_order
  \/ Call_auction_pegged_to_stock_order
  \/ Call_auction_relative_order
  \/ Call_block_order
  \/ Call_box_top_order
  \/ Call_limit_order
  \/ Call_limit_order_with_cash_qty_order
  \/ Call_limit_if_touched_order
  \/ Call_limit_on_close_order
  \/ Call_limit_on_open_order
  \/ Call_passive_relative_order
  \/ Call_pegged_to_midpoint_order
  \/ Call_market_to_limit_order
  \/ Call_market_with_protection_order
  \/ Call_stop_order
  \/ Call_stop_limit_order
  \/ Call_stop_with_protection_order
  \/ Call_trailing_stop_order
  \/ Call_trailing_stop_limit_order

NextBracket ==
  \/ Call_bracket_order
  \/ Submit

NextOca ==
  \/ Caller_push
  \/ Call_one_cancels_all_order

\* single-order presets and Order::default
SpecPreset == Init /\ [][NextPreset]_vars

\* bracket_order and the submission of its three orders
SpecBracket == Init /\ [][NextBracket]_vars

\* one_cancels_all_order
SpecOca == Init /\ [][NextOca]_vars

NextAttach ==
  \/ Call_attach_adjustable_to_stop_order
  \/ Call_attach_adjustable_to_stop_limit_order
  \/ Call_attach_adjustable_to_trail_order

\* the adjustable attached stops
SpecAttach == Init /\ [][NextAttach]_vars

NextCombo ==
  \/ Call_combo_limit_order
  \/ Call_combo_market_order
  \/ Call_limit_for_combo_with_leg_prices_order
  \/ Call_relative_limit_combo_order
  \/ Call_relative_market_combo_order

\* the combination presets
SpecCombo == Init /\ [][NextCombo]_vars

NextCondition ==
  \/ Call_price_condition_order
  \/ Call_execution_condition_order
  \/ Call_margin_condition_order
  \/ Call_percentage_change_condition_order
  \/ Call_time_condition_order
  \/ Call_volume_condition_order

\* the condition builders
SpecCondition == Init /\ [][NextCondition]_vars

NextChain == Caller_push_condition

\* the caller attaching conditions to an order
SpecChain == Init /\ [][NextChain]_vars

NextDisplay == Call_fmt

\* formatting of an Order
SpecDisplay == Init /\ [][NextDisplay]_vars

NextDecode == Call_deserialize

\* decoding of persisted orders
SpecDecode == Init /\ [][NextDecode]_vars

NextDecodePart ==
  \/ Call_deserialize_SoftDollarTier
  \/ Call_deserialize_OrderComboLeg
  \/ Call_deserialize_nested

\* decoding of persisted SoftDollarTier and OrderComboLeg records
SpecDecodePart == Init /\ [][NextDecodePart]_vars

NextSpecial ==
  \/ Call_volatility_order
  \/ Call_market_fhedge_order
  \/ Call_pegged_to_benchmark_order
  \/ Call_what_if_limit_order

\* the remaining single-order presets
SpecSpecial == Init /\ [][NextSpecial]_vars

\* no preset or builder has been called
NoCallYet ==
  /\ call = "none"
  /\ bracket.status = "none"
  /\ ~attach.called
  /\ ~combo.called
  /\ condition.status = "none"
  /\ special.status = "none"

NextOneCall ==
  \/ NoCallYet /\ NextPreset
  \/ NoCallYet /\ Call_bracket_order
  \/ NoCallYet /\ NextAttach
  \/ NoCallYet /\ NextCombo
  \/ NoCallYet /\ NextCondition
  \/ NoCallYet /\ NextSpecial

\* one call of any preset or condition builder
SpecOneCall == Init /\ [][NextOneCall]_vars

NextOrderState ==
  \/ Call_OrderState_default
  \/ Call_OrderState_new
  \/ Call_OrderState_deserialize

\* OrderState: construction, decoding and formatting
SpecOrderState == Init /\ [][NextOrderState]_vars

NextThreads ==
  \/ \E t \in Threads : Thread_call(t)
  \/ \E t \in Threads : Thread_return(t)

\* presets and builders called by several threads
SpecThreads == Init /\ [][NextThreads]_vars

NextBracketOca ==
  \/ Call_bracket_order
  \/ Caller_collect_children
  \/ Call_one_cancels_all_order

\* bracket_order followed by one_cancels_all_order on the two children
SpecBracketOca == Init /\ [][NextBracketOca]_vars

NextRender ==
  \/ ~rendered.called /\ Caller_push_condition
  \/ Call_fmt_conditions

\* formatting of an Order with a chain of conditions
SpecRender == Init /\ [][NextRender]_vars

\* every section together
Next ==
  \/ NextPreset
  \/ NextBracket
  \/ NextOca
  \/ NextAttach
  \/ NextCombo
  \/ NextCondition
  \/ NextChain
  \/ NextDisplay
  \/ NextDecode
  \/ NextDecodePart
  \/ NextSpecial
  \/ NextOrderState
  \/ NextThreads
  \/ NextBracketOca
  \/ NextRender

Spec == Init /\ [][Next]_vars

----------------------------------------------------------------------------
(* Claims about bracket_order (checked under SpecBracket) *)

Returned == bracket.status = "ok"

Parent == bracket.orders[1]

TakeProfit == bracket.orders[2]

StopLoss == bracket.orders[3]

\* C1: of the three Orders bracket_order returns, exactly one has transmit = true
\* and it is the stop-loss (third); the parent and the take-profit have
\* transmit = false.
C1_ExactlyStopLossTransmits ==
  Returned =>
    /\ ~Parent.transmit
    /\ ~TakeProfit.transmit
    /\ StopLoss.transmit
    /\ Cardinality({i \in 1..3 : bracket.orders[i].transmit}) = 1

\* a bracket has been returned whose third order is the STP stop-loss with transmit set
C1_Witness ==
  /\ Returned
  /\ StopLoss.order_type = "STP"
  /\ StopLoss.transmit
  /\ bracket.args.action = "SELL"

\* the venue's state agrees with the number of orders sent: nothing is active
\* before the third order, all three are active (and none held) after it
HeldUntilThird ==
  Returned =>
    /\ submitted < 3 => active = {}
    /\ submitted = 3 => /\ active = {Parent, TakeProfit, StopLoss}
                        /\ Cardinality(active) = 3
                        /\ held = {}

\* the active set changes only in the step that sends the third order, and that
\* step activates all three at once
ActivatedInOneStep ==
  active' # active =>
    /\ active = {}
    /\ submitted = 2 /\ submitted' = 3
    /\ active' = {Parent, TakeProfit, StopLoss}

\* C2: sent one at a time in tuple order to a venue that holds transmit = false
\* orders and activates the held linked orders on a transmit = true order, no
\* order of the bracket is active before all three have been sent, and all
\* three become active in the same step, the third submission.
C2_ActivatedTogetherOnThird ==
  /\ []HeldUntilThird
  /\ [][ActivatedInOneStep]_vars

\* two orders are held at the venue, none active; then all three are active
C2_Witness ==
  /\ Returned
  /\ submitted = 3
  /\ Cardinality(active) = 3
  /\ bracket.args.parent_order_id = 42

\* C3: take-profit and stop-loss have parent_id equal to the parent's order_id,
\* which is the parent_order_id argument; the parent has parent_id = 0.
C3_ChildrenReferenceParent ==
  Returned =>
    /\ Parent.order_id = bracket.args.parent_order_id
    /\ TakeProfit.parent_id = Parent.order_id
    /\ StopLoss.parent_id = Parent.order_id
    /\ Parent.parent_id = 0

\* a returned bracket with a non-zero parent id, so that the children's
\* parent_id differs from the default 0
C3_Witness ==
  /\ Returned
  /\ bracket.args.parent_order_id = 42
  /\ TakeProfit.parent_id = 42
  /\ StopLoss.parent_id = 42

\* C4: for action "BUY" both children have action "SELL", for "SELL" both have
\* "BUY"; the parent keeps the action argument.
C4_ChildrenOppositeAction ==
  Returned =>
    /\ Parent.action = bracket.args.action
    /\ bracket.args.action = "BUY" =>
         TakeProfit.action = "SELL" /\ StopLoss.action = "SELL"
    /\ bracket.args.action = "SELL" =>
         TakeProfit.action = "BUY" /\ StopLoss.action = "BUY"

\* a SELL bracket whose children are BUY orders
C4_Witness ==
  /\ Returned
  /\ bracket.args.action = "SELL"
  /\ Parent.action = "SELL"
  /\ TakeProfit.action = "BUY"
  /\ StopLoss.action = "BUY"

\* C5: for every 32-bit parent_order_id the call returns, take-profit has
\* order_id = parent_order_id + 1 and stop-loss parent_order_id + 2 as integers
\* (no wrap-around, no abort), so the ids strictly increase in tuple order.
C5_ChildIdsNeverWrapOrAbort ==
  bracket.status # "none" =>
    /\ Returned
    /\ TakeProfit.order_id > Parent.order_id
    /\ TakeProfit.order_id - Parent.order_id = 1
    /\ StopLoss.order_id > TakeProfit.order_id
    /\ StopLoss.order_id - Parent.order_id = 2

----------------------------------------------------------------------------
(* Claims about one_cancels_all_order (checked under SpecOca) *)

\* C6: after one_cancels_all_order(group, orders, type) returns, every order of
\* the list the caller passed has oca_group = group and oca_type = type, and
\* the caller observes that on its own order values.
C6_CallerSeesOcaFields ==
  oca.called =>
    \A i \in 1..Len(oca.oca_orders) :
      /\ caller_owns
      /\ Len(caller_orders) = Len(oca.oca_orders)
      /\ caller_orders[i].oca_group = oca.oca_group
      /\ caller_orders[i].oca_type = oca.oca_type

----------------------------------------------------------------------------
(* Claims about the single-order presets and Order::default (SpecPreset) *)

\* the presets of order.rs 719-1284 and 1348-1504
SinglePresets ==
  {
    "at_auction_order", "discretionary_order", "market_order",
    "market_if_touched_order_order", "market_on_close_order", "market_on_open_order",
    "midpoint_match_order", "midprice_order", "pegged_to_market_order",
    "pegged_to_stock_order", "relative_pegged_to_primary_order", "sweep_to_fill_order",
    "auction_limit_order", "auction_pegged_to_stock_order", "auction_relative_order",
    "block_order", "box_top_order", "limit_order", "limit_order_with_cash_qty_order",
    "limit_if_touched_order", "limit_on_close_order", "limit_on_open_order",
    "passive_relative_order", "pegged_to_midpoint_order", "market_to_limit_order",
    "market_with_protection_order", "stop_order", "stop_limit_order",
    "stop_with_protection_order", "trailing_stop_order", "trailing_stop_limit_order"
  }

\* the f64 fields of Order that hold a price (order.rs 216-444)
PriceFields ==
  {"lmt_price", "aux_price", "trail_stop_price", "nbbo_price_cap", "starting_price",
   "stock_ref_price", "delta_neutral_aux_price", "scale_price_increment",
   "scale_price_adjust_value", "trigger_price", "adjusted_stop_price",
   "adjusted_stop_limit_price", "lmt_price_offset"}

\* C8: for every single-order preset and all arguments, each field the preset
\* does not assign has its Order::default() value; in particular order_id = 0,
\* parent_id = 0, transmit = true, oca_group and conditions empty, and every
\* price field the style does not use is UNSET_DOUBLE.
C8_UnassignedFieldsAreDefault ==
  call \in SinglePresets =>
    /\ \A f \in OrderFields \ AssignedFields(call) : ret[f] = Order_default[f]
    /\ ret.order_id = 0
    /\ ret.parent_id = 0
    /\ ret.transmit
    /\ ret.oca_group = ""
    /\ ret.conditions = <<>>
    /\ \A f \in PriceFields \ AssignedFields(call) : ret[f] = UNSET_DOUBLE

\* a preset that uses lmt_price but not aux_price has returned
C8_Witness ==
  /\ call = "limit_on_open_order"
  /\ ret.tif = "OPG"
  /\ ret.lmt_price = "50.5"
  /\ ret.aux_price = UNSET_DOUBLE

\* C9: stop_limit_order(account, action, quantity, limit_price, stop_price)
\* returns order_type "STP LMT", the account, action and quantity given,
\* lmt_price = limit_price (4th argument), aux_price = stop_price (5th), and
\* every other field at its Default value.
C9_StopLimitMapping ==
  call = "stop_limit_order" =>
    /\ ret.order_type = "STP LMT"
    /\ ret.account = args.account
    /\ ret.action = args.action
    /\ ret.total_quantity = args.quantity
    /\ ret.lmt_price = args.limit_price
    /\ ret.aux_price = args.stop_price
    /\ \A f \in OrderFields \ {"order_type", "account", "action", "total_quantity",
                               "lmt_price", "aux_price"} :
         ret[f] = Order_default[f]

\* stop_limit_order("U123", "BUY", 100.0, 50.5, 50.0) has returned
C9_Witness ==
  /\ call = "stop_limit_order"
  /\ args = [account |-> "U123", action |-> "BUY", quantity |-> "100.0",
             limit_price |-> "50.5", stop_price |-> "50.0"]
  /\ ret.lmt_price = "50.5"
  /\ ret.aux_price = "50.0"

\* the optional f64 fields: every f64 field but the core term total_quantity
OptionalDoubleFields == F64Fields \ {"total_quantity"}

\* the optional i32 quantity and size fields
OptionalSizeFields ==
  {"min_qty", "display_size", "scale_init_level_size", "scale_subs_level_size",
   "scale_init_position", "scale_init_fill_qty"}

\* C10: in Order::default() every optional floating-point field (among them
\* discretionary_amt, pegged_change_amount, reference_change_amount) equals
\* UNSET_DOUBLE and every optional integer quantity/size field equals
\* UNSET_INTEGER; none is zero.
C10_DefaultOptionalNumericsAreSentinels ==
  call = "default" =>
    /\ \A f \in OptionalDoubleFields : ret[f] = UNSET_DOUBLE /\ ret[f] # "0.0"
    /\ \A f \in OptionalSizeFields : ret[f] = UNSET_INTEGER /\ ret[f] # 0

----------------------------------------------------------------------------
(* Claims about Order::default, continued (checked under SpecPreset) *)

\* the boolean fields that impl Default for Order sets to true (order.rs 2133, 2173, 2174)
TrueByDefault == {"transmit", "e_trade_only", "firm_quote_only"}

\* C11: Order::default() has transmit, e_trade_only and firm_quote_only true,
\* open_close "O", exempt_code -1 and origin Customer; every other boolean
\* field is false and every other string field is empty.
C11_DefaultFlagsAndStrings ==
  call = "default" =>
    /\ \A f \in BoolFields : ret[f] = (f \in TrueByDefault)
    /\ ret.open_close = "O"
    /\ ret.exempt_code = -1
    /\ ret.origin = "Customer"
    /\ \A f \in StringFields \ {"open_close"} : ret[f] = ""

C11_Witness ==
  /\ call = "default"
  /\ ret.transmit
  /\ ~ret.hidden
  /\ ret.open_close = "O"
  /\ ret.account = ""

----------------------------------------------------------------------------
(* Claims about the adjustable attached stops (checked under SpecAttach) *)

\* C13: each attach_adjustable_to_*_order returns a child with order_type
\* "STP", aux_price = attached_order_stop_price, the parent's account and
\* total_quantity, the opposite of a parent action "BUY" or "SELL",
\* parent_id = parent.order_id and trigger_price = the trigger_price argument.
C13_AttachedChildIsOppositeStop ==
  attach.called =>
    /\ attach.order.order_type = "STP"
    /\ attach.order.aux_price = attach.args.attached_order_stop_price
    /\ attach.order.account = attach.parent.account
    /\ attach.order.total_quantity = attach.parent.total_quantity
    /\ (attach.parent.action = "BUY" => attach.order.action = "SELL")
    /\ (attach.parent.action = "SELL" => attach.order.action = "BUY")
    /\ attach.order.parent_id = attach.parent.order_id
    /\ attach.order.trigger_price = attach.args.trigger_price

C13_Witness ==
  /\ attach.called
  /\ attach.fn = "attach_adjustable_to_trail_order"
  /\ attach.parent.action = "BUY"
  /\ attach.parent.order_id = 42
  /\ attach.order.action = "SELL"
  /\ attach.order.parent_id = 42
  /\ attach.order.trigger_price = "50.5"
  /\ attach.order.aux_price = "50.0"

----------------------------------------------------------------------------
(* Claims about the combination presets (checked under SpecCombo) *)

\* C14: for every list of leg prices, the empty list and lists with negative
\* or repeated prices included, limit_for_combo_with_leg_prices_order returns
\* an Order whose order_combo_legs has the length of the list and whose i-th
\* leg price is the i-th input price.
C14_LegsFollowLegPrices ==
  (combo.called /\ combo.fn = "limit_for_combo_with_leg_prices_order") =>
    /\ Len(combo.order.order_combo_legs) = Len(combo.args.leg_prices)
    /\ \A i \in 1..Len(combo.args.leg_prices) :
         combo.order.order_combo_legs[i].price = combo.args.leg_prices[i]

C14_Witness ==
  /\ combo.called
  /\ combo.fn = "limit_for_combo_with_leg_prices_order"
  /\ combo.args.leg_prices = <<"1.5", "-0.25", "3.0">>
  /\ Len(combo.order.order_combo_legs) = 3
  /\ combo.order.order_combo_legs[2].price = "-0.25"

\* C15: each of the five combo presets returns smart_combo_routing_params equal
\* to the one-element list [("NonGuaranteed", "1")] when non_guaranteed is
\* true and the empty list when it is false.
C15_NonGuaranteedTag ==
  combo.called =>
    combo.order.smart_combo_routing_params =
      IF combo.args.non_guaranteed
      THEN <<[tag |-> "NonGuaranteed", value |-> "1"]>>
      ELSE <<>>

C15_Witness ==
  /\ combo.called
  /\ combo.fn = "relative_limit_combo_order"
  /\ combo.args.non_guaranteed
  /\ Len(combo.order.smart_combo_routing_params) = 1
  /\ combo.order.smart_combo_routing_params[1].tag = "NonGuaranteed"

----------------------------------------------------------------------------
(* Claims about the condition builders (checked under SpecCondition) *)

\* the variant each builder is declared to return (order.rs 1883-2010)
KindOf(fn) ==
  CASE fn = "price_condition_order" -> "Price"
    [] fn = "time_condition_order" -> "Time"
    [] fn = "margin_condition_order" -> "Margin"
    [] fn = "execution_condition_order" -> "Execution"
    [] fn = "percentage_change_condition_order" -> "PercentChange"
    [] fn = "volume_condition_order" -> "Volume"

C18_FieldOrder ==
  condition.status = "ok" =>
    LET c == condition.value
        fields == make_fields(c)
        scope == IF c.variant \in ContractConditions THEN 2 ELSE 0
        operator == IF c.variant \in OperatorConditions THEN 1 ELSE 0
    IN /\ fields[1] = c.cond_type
       /\ fields[2] = conjunction_field(c.is_conjunction_connection)
       /\ scope = 2 => fields[3] = ToString(c.con_id) /\ fields[4] = c.exchange
       /\ operator = 1 => fields[2 + scope + 1] = is_more_field(c.is_more)
       /\ SubSeq(fields, 2 + scope + operator + 1, Len(fields)) = payload_fields(c)
       /\ Len(fields) = 2 + scope + operator + Len(payload_fields(c))

C18_Witness ==
  /\ condition.status = "ok"
  /\ condition.fn = "price_condition_order"
  /\ make_fields(condition.value) = <<"Price", "o", "8314", "SMART", "1", "50.5">>

----------------------------------------------------------------------------
(* Claims about the condition chain (checked under SpecChain) *)

\* the chain with the conjunction flag of its last condition inverted
FlipLast(chain) ==
  [chain EXCEPT ![Len(chain)].condition.is_conjunction_connection = ~@]

\* The value of c1 (AND|OR per a1) c2 ... cn read from the left, written
\* without recursion from the arguments the builders were given: it is true
\* iff some condition k is met that starts a run (k = 1, or k joined by OR)
\* which every later condition continues (met, or joined by OR).
LeftAssociativeValue(chain, holds) ==
  \E k \in 1..Len(chain) :
    /\ holds[k]
    /\ k = 1 \/ ~chain[k - 1].is_conjunction
    /\ \A j \in (k + 1)..Len(chain) : holds[j] \/ ~chain[j - 1].is_conjunction

----------------------------------------------------------------------------
(* Claims about Display for Order (checked under SpecDisplay) *)

\* the f64 fields of Order among the arguments of the write! (order.rs 2070-2075)
RenderedF64Fields == {"total_quantity", "lmt_price"}

\* lmt_price is rendered by "{:E}" when it is the sentinel, by "{:?}" otherwise
LmtPriceFormByValue ==
  /\ display.unset_args[7] =
       IF display.field = "lmt_price" \/ display.order.lmt_price = UNSET_DOUBLE
       THEN "1.7976931348623157E308"
       ELSE f64_fmt_debug(display.order.lmt_price)
  /\ display.zero_args[7] =
       IF display.field # "lmt_price" /\ display.order.lmt_price = UNSET_DOUBLE
       THEN "1.7976931348623157E308"
       ELSE IF display.field = "lmt_price" THEN "0.0"
       ELSE f64_fmt_debug(display.order.lmt_price)

----------------------------------------------------------------------------
(* Claims about persistence (checked under SpecDecode) *)

\* C20: decoding a persisted Order record from which any subset of fields is
\* absent succeeds and gives every absent field the value it has in
\* Order::default(); decoding the empty record gives Order::default().
C20_AbsentFieldsTakeOrderDefault ==
  decoded.called =>
    /\ decoded.status = "ok"
    /\ \A f \in decoded.absent : decoded.value[f] = Order_default[f]
    /\ decoded.absent = OrderFields => decoded.value = Order_default

C20_Witness ==
  /\ decoded.called
  /\ decoded.absent = {"transmit", "origin", "lmt_price"}
  /\ ~decoded.source.transmit
  /\ decoded.value.transmit
  /\ decoded.value.origin = "Customer"
  /\ decoded.value.lmt_price = UNSET_DOUBLE
  /\ decoded.value.open_close = "C"

----------------------------------------------------------------------------
(* Claims about persistence of the nested structs (SpecDecodePart) *)

\* C21: decoding a SoftDollarTier or OrderComboLeg record from which a field
\* is absent succeeds, alone and nested in an Order record, and the absent
\* field holds the default of its struct
C21_NestedAbsentFieldsDefaulted ==
  decoded_part.called =>
    /\ decoded_part.status = "ok"
    /\ LET v == IF decoded_part.type = "Order"
                  THEN decoded_part.value.soft_dollar_tier
                  ELSE decoded_part.value
           d == IF decoded_part.type = "OrderComboLeg"
                  THEN OrderComboLeg_default
                  ELSE SoftDollarTier_new("", "", "")
       IN \A f \in DOMAIN d :
            v[f] = IF f \in decoded_part.absent THEN d[f] ELSE decoded_part.source[f]

----------------------------------------------------------------------------
(* Claims about every preset and condition builder (SpecOneCall) *)

\* C22: every preset and every condition builder returns a value for every
\* argument combination: no call aborts
C22_EveryCallReturns ==
  /\ bracket.status # "panic"
  /\ condition.status # "panic"
  /\ special.status # "panic"

----------------------------------------------------------------------------
(* Claims about OrderState (checked under SpecOrderState) *)

\* position of a field among the arguments of the write!
OrderStateFieldIndex(f) ==
  CHOOSE i \in 1..Len(OrderStateFieldOrder) : OrderStateFieldOrder[i] = f

\* C23: a commission field that an OrderState was not given (the default
\* OrderState, or a decoded record without the field) equals UNSET_DOUBLE and
\* is rendered in the scientific form of the sentinel
C23_UnsetCommissionsAreSentinel ==
  order_state.called =>
    \A f \in CommissionFields \cap order_state.absent :
      /\ order_state.value[f] = UNSET_DOUBLE
      /\ order_state.fmt_args[OrderStateFieldIndex(f)] = "1.7976931348623157E308"

----------------------------------------------------------------------------
(* Claims about calls from several threads (checked under SpecThreads) *)

----------------------------------------------------------------------------
(* Claims about a bracket put into an OCA group (checked under SpecBracketOca) *)

\* C25: after bracket_order and one_cancels_all_order on the bracket's
\* take-profit and stop-loss, the caller's two orders carry the given
\* oca_group and oca_type and still have the bracket linkage: parent_id the
\* parent's order_id, order_ids parent + 1 and parent + 2, transmit false for
\* the take-profit and true for the stop-loss
C25_BracketChildrenCarryOcaAndLinkage ==
  (oca.called /\ Returned /\ oca.oca_orders = <<TakeProfit, StopLoss>>) =>
    /\ caller_owns
    /\ Len(caller_orders) = 2
    /\ \A i \in 1..2 :
         /\ caller_orders[i].oca_group = oca.oca_group
         /\ caller_orders[i].oca_type = oca.oca_type
         /\ caller_orders[i].parent_id = Parent.order_id
         /\ caller_orders[i].order_id = Parent.order_id + i
    /\ ~caller_orders[1].transmit
    /\ caller_orders[2].transmit

----------------------------------------------------------------------------
(* Claims about the order_type and tif of every single-order preset        *)
(* (checked under SpecOneCall)                                             *)

\* the preset that was called and the Order it returned
CalledPreset ==
  IF call \notin {"none", "default"} THEN [fn |-> call, order |-> ret]
  ELSE IF combo.called THEN [fn |-> combo.fn, order |-> combo.order]
  ELSE IF attach.called THEN [fn |-> attach.fn, order |-> attach.order]
  ELSE IF special.status = "ok" THEN [fn |-> special.fn, order |-> special.order]
  ELSE [fn |-> "none", order |-> Order_default]

\* the order type codes of the order styles
OrderTypeCodes ==
  {"MKT", "LMT", "STP", "STP LMT", "STP PRT", "TRAIL", "TRAIL LIMIT", "MIT", "LIT",
   "MOC", "LOC", "MTL", "MKT PRT", "MIDPRICE", "PEG MKT", "PEG STK", "PEG MID",
   "PEG BENCH", "REL", "PASSV REL", "BOX TOP", "VOL", "REL + LMT", "REL + MKT"}

\* the code of each preset's order style
FixedOrderType(fn) ==
  CASE fn = "at_auction_order" -> "MTL"
    [] fn = "discretionary_order" -> "LMT"
    [] fn = "market_order" -> "MKT"
    [] fn = "market_if_touched_order_order" -> "MIT"
    [] fn = "market_on_close_order" -> "MOC"
    [] fn = "market_on_open_order" -> "MKT"
    [] fn = "midpoint_match_order" -> "MKT"
    [] fn = "midprice_order" -> "MIDPRICE"
    [] fn = "pegged_to_market_order" -> "PEG MKT"
    [] fn = "pegged_to_stock_order" -> "PEG STK"
    [] fn = "relative_pegged_to_primary_order" -> "REL"
    [] fn = "sweep_to_fill_order" -> "LMT"
    [] fn = "auction_limit_order" -> "LMT"
    [] fn = "auction_pegged_to_stock_order" -> "PEG STK"
    [] fn = "auction_relative_order" -> "REL"
    [] fn = "block_order" -> "LMT"
    [] fn = "box_top_order" -> "BOX TOP"
    [] fn = "limit_order" -> "LMT"
    [] fn = "limit_order_with_cash_qty_order" -> "LMT"
    [] fn = "limit_if_touched_order" -> "LIT"
    [] fn = "limit_on_close_order" -> "LOC"
    [] fn = "limit_on_open_order" -> "LMT"
    [] fn = "passive_relative_order" -> "PASSV REL"
    [] fn = "pegged_to_midpoint_order" -> "PEG MID"
    [] fn = "market_to_limit_order" -> "MTL"
    [] fn = "market_with_protection_order" -> "MKT PRT"
    [] fn = "stop_order" -> "STP"
    [] fn = "stop_limit_order" -> "STP LMT"
    [] fn = "stop_with_protection_order" -> "STP PRT"
    [] fn = "trailing_stop_order" -> "TRAIL"
    [] fn = "trailing_stop_limit_order" -> "TRAIL LIMIT"
    [] fn = "combo_limit_order" -> "LMT"
    [] fn = "combo_market_order" -> "MKT"
    [] fn = "limit_for_combo_with_leg_prices_order" -> "LMT"
    [] fn = "relative_limit_combo_order" -> "REL + LMT"
    [] fn = "relative_market_combo_order" -> "REL + MKT"
    [] fn = "volatility_order" -> "VOL"
    [] fn = "pegged_to_benchmark_order" -> "PEG BENCH"
    [] fn = "market_fhedge_order" -> "MKT"
    [] fn = "what_if_limit_order" -> "LMT"
    [] fn = "attach_adjustable_to_stop_order" -> "STP"
    [] fn = "attach_adjustable_to_stop_limit_order" -> "STP"
    [] fn = "attach_adjustable_to_trail_order" -> "STP"

\* the time in force of each preset: empty for all but four
FixedTif(fn) ==
  CASE fn = "at_auction_order" -> "AUC"
    [] fn = "market_on_open_order" -> "OPG"
    [] fn = "limit_on_open_order" -> "OPG"
    [] fn = "combo_limit_order" -> "GTC"
    [] OTHER -> ""

\* C26: every single-order preset returns an Order whose order_type is the
\* fixed code of the preset, whatever the arguments, and whose tif is empty,
\* except at_auction_order ("AUC", order_type "MTL"), market_on_open_order and
\* limit_on_open_order ("OPG") and combo_limit_order ("GTC")
C26_FixedOrderTypeAndTif ==
  CalledPreset.fn # "none" =>
    /\ CalledPreset.order.order_type = FixedOrderType(CalledPreset.fn)
    /\ CalledPreset.order.order_type \in OrderTypeCodes
    /\ CalledPreset.order.tif = FixedTif(CalledPreset.fn)

\* volatility_order was called with a daily volatility and returned "VOL"
\* with no time in force
C26_Witness ==
  /\ special.fn = "volatility_order"
  /\ special.args.volatility_type = 1
  /\ special.args.quantity = "-1.0"
  /\ special.order.order_type = "VOL"
  /\ special.order.tif = ""

----------------------------------------------------------------------------
(* Claims about the adjusted fields of the attached stops (SpecAttach) *)

\* C27: each attach_adjustable_* preset names one adjusted order type and sets
\* only that type's adjusted fields: to_stop "STP" with adjusted_stop_price;
\* to_stop_limit "STP LMT" with adjusted_stop_price and
\* adjusted_stop_limit_price; to_trail "TRAIL" with adjusted_stop_price,
\* adjusted_trailing_amount and adjustable_trailing_unit; every other adjusted
\* field keeps its Default value (UNSET_DOUBLE, 0 for adjustable_trailing_unit)
C27_OnlyOwnAdjustedFieldsSet ==
  attach.called =>
    LET o == attach.order
        a == attach.args
    IN CASE attach.fn = "attach_adjustable_to_stop_order" ->
              /\ o.adjusted_order_type = "STP"
              /\ o.adjusted_stop_price = a.adjust_stop_price
              /\ o.adjusted_stop_limit_price = UNSET_DOUBLE
              /\ o.adjusted_trailing_amount = UNSET_DOUBLE
              /\ o.adjustable_trailing_unit = 0
         [] attach.fn = "attach_adjustable_to_stop_limit_order" ->
              /\ o.adjusted_order_type = "STP LMT"
              /\ o.adjusted_stop_price = a.adjusted_stop_price
              /\ o.adjusted_stop_limit_price = a.adjusted_stop_limit_price
              /\ o.adjusted_trailing_amount = UNSET_DOUBLE
              /\ o.adjustable_trailing_unit = 0
         [] attach.fn = "attach_adjustable_to_trail_order" ->
              /\ o.adjusted_order_type = "TRAIL"
              /\ o.adjusted_stop_price = a.adjusted_stop_price
              /\ o.adjusted_trailing_amount = a.adjusted_trail_amount
              /\ o.adjustable_trailing_unit = a.trail_unit
              /\ o.adjusted_stop_limit_price = UNSET_DOUBLE

\* attach_adjustable_to_stop_order was called: its child has the adjusted stop
\* price of the call and no adjusted limit price or trailing amount
C27_Witness ==
  /\ attach.called
  /\ attach.fn = "attach_adjustable_to_stop_order"
  /\ attach.args.adjust_stop_price = "50.0"
  /\ attach.order.adjusted_order_type = "STP"
  /\ attach.order.adjusted_stop_price = "50.0"
  /\ attach.order.adjusted_stop_limit_price = UNSET_DOUBLE

----------------------------------------------------------------------------
(* Claims about the account of the bracket's orders (checked under SpecBracket) *)

\* C28: all three Orders bracket_order returns carry the account argument in
\* account and the quantity argument in total_quantity
C28_BracketOrdersCarryAccountAndQuantity ==
  Returned =>
    \A i \in 1..3 :
      /\ bracket.orders[i].total_quantity = bracket.args.quantity
      /\ bracket.orders[i].account = bracket.args.account

----------------------------------------------------------------------------
(* Claims about the action of a child order (checked under SpecOneCall) *)

\* the action of a child is "SELL" for the parent action "BUY" and "BUY" for
\* every other string
ChildActionFollows(parent_action, child_action) ==
  /\ parent_action = "BUY" => child_action = "SELL"
  /\ parent_action # "BUY" => child_action = "BUY"

\* C29: in bracket_order and in the three attach_adjustable_* presets the
\* child's action is "SELL" when the parent action is exactly "BUY" and "BUY"
\* for every other parent action ("SELL", "SSHORT", "buy", ""); the comparison
\* is case-sensitive and nothing else changes the child's action
C29_ChildActionIsExactComparison ==
  /\ Returned =>
       /\ ChildActionFollows(bracket.args.action, TakeProfit.action)
       /\ ChildActionFollows(bracket.args.action, StopLoss.action)
  /\ attach.called => ChildActionFollows(attach.parent.action, attach.order.action)

\* bracket_order was called with the lower-case action "buy" and both
\* children are "BUY"
C29_Witness ==
  /\ Returned
  /\ bracket.args.action = "buy"
  /\ Parent.action = "buy"
  /\ TakeProfit.action = "BUY"
  /\ StopLoss.action = "BUY"

----------------------------------------------------------------------------
(* Claims about Display for an Order with conditions (SpecRender) *)

\* the COND part built from the left: the part of the first n - 1 conditions,
\* then the n-th condition's fields joined by "," and a closing "|"
RECURSIVE CondPart(_, _)
CondPart(chain, n) ==
  IF n = 0 THEN ""
  ELSE CondPart(chain, n - 1) \o join(make_fields(chain[n]), ",") \o "|"

====
